---- MODULE Spec2Model ----
(***************************************************************************)
(* Verification model of netcam-aioexos: the EXOS device-under-test (its   *)
(* session cache and its check dispatch) and the check executors that are *)
(* registered on it.                                                       *)
(***************************************************************************)
EXTENDS Integers, Sequences, FiniteSets, TLC

(***************************************************************************)
(* Bounds of the model.                                                    *)
(***************************************************************************)
NCallers == 2
MaxCalls == 3
MaxRegs == 4
MaxDispatch == 2
MaxChecks == 2
MaxSessionChecks == 1
MaxRuns == 2
NDuts == 3

Callers == 1..NCallers

(***************************************************************************)
(* Session cache: EXOSDeviceUnderTest.api_cache_get                        *)
(***************************************************************************)

\* cache keys used by the callers
Keys == {"k1", "k2"}

\* dict.get(key) of a key that is not in the dict
None == "None"

\* commands that the callers pass
Commands == {"c1", "c2"}

\* what exos.cli(command) can return: an empty response (falsy in Python) or
\* a non-empty one; two distinct non-empty responses, the device's answer can
\* change between two executions.
Responses == {"EMPTY", "r1", "r2"}

VARIABLES
    api_cache,        \* self._api_cache: key -> response, None when absent
    api_cache_locked, \* self._api_cache_lock: is the asyncio.Lock held
    lock_waiters,     \* the lock's FIFO of suspended acquirers
    pc,               \* per caller: idle, waiting, fetch, done, raised
    ckey,             \* per caller: the key argument of the call in progress
    ccmd,             \* per caller: its command argument
    has_data,         \* per caller: the value the call returned
    ncalls,           \* calls of api_cache_get started so far in the run
    waited,           \* per caller: the call in progress queued for the lock
    fetched,          \* per caller: the call in progress ran the command
    execs,            \* per key: executions of the device command started
    raises,           \* per key: executions that raised
    first             \* per key: what the first completed execution returned

\* the dispatch of execute_checks
VARIABLES
    registry,         \* execute_checks' dispatch registry: collection type -> executor
    reglog,           \* the register() calls made so far, in order
    dispatches        \* the execute_checks calls made so far and how each ended

dispatchVars == <<registry, reglog, dispatches>>

\* the run of one check executor on the DUT
VARIABLES
    hname,            \* the executor that runs, None before the first run
    hpc,              \* idle, loop, exclusive, returned or raised
    device,           \* what the device answers to the executor's commands
    design,           \* dut.device and dut.device_info: the design of the device
    exclusive,        \* collection.exclusive
    checks,           \* collection.checks
    idx,              \* position in collection.checks of the next check
    msrds,            \* the measurement mapping the executor collected
    results,          \* the executor's list of results
    sent,             \* commands sent to the device on this DUT: command -> count
    ran,              \* the executors that have run and left on this DUT
    failing           \* the command whose execution raises in this run, or None

checkVars == <<hname, hpc, device, design, exclusive, checks, idx, msrds,
               results, sent, ran, failing>>

\* what a run of an executor never changes, but for the collection's checks
runFrame == <<hname, device, design, exclusive, ran, failing>>

cacheVars == <<api_cache, api_cache_locked, lock_waiters, pc, ckey, ccmd, has_data,
               ncalls, waited, fetched, execs, raises, first>>

\* setup() and teardown() of the DUTs of a run
VARIABLES
    spc,              \* per DUT: new, port_check, show_switch, teardown,
                      \* ready, closed or raised
    system_info,      \* per DUT: self.system_info, None until setup has it
    aclosed,          \* per DUT: how often self.exos.aclose() has run
    exc               \* per DUT: the exception setup() has raised, or None

setupVars == <<spc, system_info, aclosed, exc>>

vars == <<cacheVars, dispatchVars, checkVars, setupVars>>

\* Python truthiness of a response or of None
Truthy(v) == v \notin {None, "EMPTY"}

\* line 128: `if not (has_data := self._api_cache.get(key))`
CacheMiss(k) == ~Truthy(api_cache[k])

InitCache ==
    /\ api_cache = [k \in Keys |-> None]
    /\ api_cache_locked = FALSE
    /\ lock_waiters = <<>>
    /\ pc = [p \in Callers |-> "idle"]
    /\ ckey = [p \in Callers |-> None]
    /\ ccmd = [p \in Callers |-> None]
    /\ has_data = [p \in Callers |-> None]
    /\ ncalls = 0
    /\ waited = [p \in Callers |-> FALSE]
    /\ fetched = [p \in Callers |-> FALSE]
    /\ execs = [k \in Keys |-> 0]
    /\ raises = [k \in Keys |-> 0]
    /\ first = [k \in Keys |-> None]

\* Variant of EnterLocked that runs the command whatever the cache holds
EnterLocked_Refetch(p, k) ==
    /\ api_cache_locked' = TRUE
    /\ pc' = [pc EXCEPT ![p] = "fetch"]
    /\ execs' = [execs EXCEPT ![k] = @ + 1]
    /\ fetched' = [fetched EXCEPT ![p] = TRUE]
    /\ has_data' = has_data

\* The body of `async with self._api_cache_lock:` up to its first suspension,
\* run by caller p for key k once the lock is its own: a hit returns the
\* cached value and releases the lock in the same step, a miss starts the
\* device command and keeps the lock while it is in flight.
EnterLocked(p, k) ==
    IF CacheMiss(k)
    THEN /\ api_cache_locked' = TRUE
         /\ pc' = [pc EXCEPT ![p] = "fetch"]
         /\ execs' = [execs EXCEPT ![k] = @ + 1]
         /\ fetched' = [fetched EXCEPT ![p] = TRUE]
         /\ has_data' = has_data
    ELSE /\ api_cache_locked' = FALSE
         /\ pc' = [pc EXCEPT ![p] = "done"]
         /\ has_data' = [has_data EXCEPT ![p] = api_cache[k]]
         /\ UNCHANGED <<execs, fetched>>

\* Variant of Call with the mutual exclusion around the fetch only: a call for
\* a populated key returns the cached value at once, whatever the lock's state.
Call_LockFreeRead(p, k, c) ==
    /\ pc[p] = "idle"
    /\ ncalls < MaxCalls
    /\ ncalls' = ncalls + 1
    /\ ckey' = [ckey EXCEPT ![p] = k]
    /\ ccmd' = [ccmd EXCEPT ![p] = c]
    /\ IF ~CacheMiss(k)
       THEN /\ pc' = [pc EXCEPT ![p] = "done"]
            /\ has_data' = [has_data EXCEPT ![p] = api_cache[k]]
            /\ UNCHANGED <<api_cache_locked, lock_waiters, waited, execs, fetched>>
       ELSE IF ~api_cache_locked /\ lock_waiters = <<>>
       THEN /\ EnterLocked(p, k)
            /\ UNCHANGED <<lock_waiters, waited>>
       ELSE /\ lock_waiters' = Append(lock_waiters, p)
            /\ pc' = [pc EXCEPT ![p] = "waiting"]
            /\ waited' = [waited EXCEPT ![p] = TRUE]
            /\ UNCHANGED <<api_cache_locked, has_data, execs, fetched>>
    /\ UNCHANGED <<api_cache, raises, first>>
    /\ UNCHANGED <<dispatchVars, checkVars, setupVars>>

\* a caller starts api_cache_get(key, command): asyncio.Lock.acquire() takes
\* a free lock without suspending, otherwise the caller queues behind the
\* waiters.
Call(p, k, c) ==
    /\ pc[p] = "idle"
    /\ ncalls < MaxCalls
    /\ ncalls' = ncalls + 1
    /\ ckey' = [ckey EXCEPT ![p] = k]
    /\ ccmd' = [ccmd EXCEPT ![p] = c]
    /\ IF ~api_cache_locked /\ lock_waiters = <<>>
       THEN /\ EnterLocked(p, k)
            /\ UNCHANGED <<lock_waiters, waited>>
       ELSE /\ lock_waiters' = Append(lock_waiters, p)
            /\ pc' = [pc EXCEPT ![p] = "waiting"]
            /\ waited' = [waited EXCEPT ![p] = TRUE]
            /\ UNCHANGED <<api_cache_locked, has_data, execs, fetched>>
    /\ UNCHANGED <<api_cache, raises, first>>
    /\ UNCHANGED <<dispatchVars, checkVars, setupVars>>

\* release() woke the first waiter: it takes the lock and runs the body
Wake(p) ==
    /\ pc[p] = "waiting"
    /\ ~api_cache_locked
    /\ lock_waiters # <<>>
    /\ Head(lock_waiters) = p
    /\ lock_waiters' = Tail(lock_waiters)
    /\ EnterLocked(p, ckey[p])
    /\ UNCHANGED <<api_cache, ckey, ccmd, ncalls, waited, raises, first>>
    /\ UNCHANGED <<dispatchVars, checkVars, setupVars>>

\* lines 129-132: the device command returns v; it is stored under the key,
\* returned, and the lock is released on leaving the `async with`.
CliReturn(p, v) ==
    /\ pc[p] = "fetch"
    /\ api_cache' = [api_cache EXCEPT ![ckey[p]] = v]
    /\ has_data' = [has_data EXCEPT ![p] = v]
    /\ first' = [first EXCEPT ![ckey[p]] = IF @ = None THEN v ELSE @]
    /\ api_cache_locked' = FALSE
    /\ pc' = [pc EXCEPT ![p] = "done"]
    /\ UNCHANGED <<lock_waiters, ckey, ccmd, ncalls, waited, fetched, execs,
                   raises>>
    /\ UNCHANGED <<dispatchVars, checkVars, setupVars>>

\* Variant of CliRaise where the exception leaves the lock held
CliRaise_KeepLock(p) ==
    /\ pc[p] = "fetch"
    /\ raises' = [raises EXCEPT ![ckey[p]] = @ + 1]
    /\ pc' = [pc EXCEPT ![p] = "raised"]
    /\ UNCHANGED <<api_cache, api_cache_locked, lock_waiters, ckey, ccmd,
                   has_data, ncalls, waited, fetched, execs, first>>
    /\ UNCHANGED <<dispatchVars, checkVars, setupVars>>

\* line 129 raises: the exception leaves the `async with`, which releases the
\* lock; line 130 is not reached.
CliRaise(p) ==
    /\ pc[p] = "fetch"
    /\ raises' = [raises EXCEPT ![ckey[p]] = @ + 1]
    /\ api_cache_locked' = FALSE
    /\ pc' = [pc EXCEPT ![p] = "raised"]
    /\ UNCHANGED <<api_cache, lock_waiters, ckey, ccmd, has_data, ncalls,
                   waited, fetched, execs, first>>
    /\ UNCHANGED <<dispatchVars, checkVars, setupVars>>

\* the caller has its value or its exception and goes on
Finish(p) ==
    /\ pc[p] \in {"done", "raised"}
    /\ pc' = [pc EXCEPT ![p] = "idle"]
    /\ ckey' = [ckey EXCEPT ![p] = None]
    /\ ccmd' = [ccmd EXCEPT ![p] = None]
    /\ has_data' = [has_data EXCEPT ![p] = None]
    /\ waited' = [waited EXCEPT ![p] = FALSE]
    /\ fetched' = [fetched EXCEPT ![p] = FALSE]
    /\ UNCHANGED <<api_cache, api_cache_locked, lock_waiters, ncalls, execs,
                   raises, first>>
    /\ UNCHANGED <<dispatchVars, checkVars, setupVars>>

(***************************************************************************)
(* Check dispatch: EXOSDeviceUnderTest.execute_checks, a                   *)
(* functools.singledispatchmethod on the type of the check collection      *)
(***************************************************************************)

\* check-collection types; the last has no executor in this package
Categories == {"InterfaceCheckCollection", "VlanCheckCollection",
               "BgpCheckCollection"}

\* executor functions that register() is called with
Executors == {"exos_check_interfaces", "eos_check_vlans"}

InitDispatch ==
    /\ registry = [c \in Categories |-> None]
    /\ reglog = <<>>
    /\ dispatches = <<>>

\* Variant of RegistryAfter that keeps the executor registered first
RegistryAfter_KeepFirst(c, f) ==
    IF registry[c] = None THEN [registry EXCEPT ![c] = f] ELSE registry

\* `@EXOSDeviceUnderTest.execute_checks.register`: singledispatch stores the
\* function under the annotated collection type, `registry[cls] = func`,
\* whatever was stored there before, and raises nothing.
RegistryAfter(c, f) == [registry EXCEPT ![c] = f]

Register(c, f) ==
    /\ Len(reglog) < MaxRegs
    /\ registry' = RegistryAfter(c, f)
    /\ reglog' = Append(reglog, <<c, f>>)
    /\ UNCHANGED dispatches
    /\ UNCHANGED <<cacheVars, checkVars, setupVars>>

\* lines 166-175, the undecorated body that singledispatch falls back to:
\* `return super().execute_checks()` calls the base method without the
\* collection.  The base method of netcam requires it (TypeError at the call)
\* and is abstract (NotImplementedError): the call raises either way.
DefaultExecuteChecks == {"raised_TypeError", "raised_NotImplementedError"}

\* execute_checks(checks) with type(checks) = c: the registered executor
\* runs, or the default body when the type has none
Dispatch(c) ==
    /\ Len(dispatches) < MaxDispatch
    /\ \E how \in (IF registry[c] # None THEN {registry[c]}
                                          ELSE DefaultExecuteChecks) :
           dispatches' = Append(dispatches, [category |-> c,
                                             registered |-> registry[c] # None,
                                             outcome |-> how])
    /\ UNCHANGED <<registry, reglog>>
    /\ UNCHANGED <<cacheVars, checkVars, setupVars>>

NextDispatch ==
    \/ \E c \in Categories, f \in Executors : Register(c, f)
    \/ \E c \in Categories : Dispatch(c)

NextCache ==
    \/ \E p \in Callers, k \in Keys, c \in Commands : Call(p, k, c)
    \/ \E p \in Callers : Wake(p)
    \/ \E p \in Callers, v \in Responses : CliReturn(p, v)
    \/ \E p \in Callers : CliRaise(p)
    \/ \E p \in Callers : Finish(p)

(***************************************************************************)
(* Check executors: what they share                                        *)
(***************************************************************************)

\* a dict lookup that found nothing, an unset measurement, an empty response
NoRec == [is_none |-> TRUE]

\* a Python int, where the same place can hold None (NoRec), a bool or a
\* profile
PyInt(n) == [int |-> n]

\* the function with no argument: an empty dict
EmptyFn == [x \in {} |-> x]

\* dict.get(key, default)
Get(rec, key, default) == IF key \in DOMAIN rec THEN rec[key] ELSE default

\* str(n) of a port number
RECURSIVE Str(_)
Str(n) ==
    IF n < 10
    THEN <<"0", "1", "2", "3", "4", "5", "6", "7", "8", "9">>[n + 1]
    ELSE Str(n \div 10) \o Str(n % 10)

\* one more execution of a command on the device
Send(s, cmd) == IF cmd \in DOMAIN s THEN [s EXCEPT ![cmd] = @ + 1]
                                    ELSE s @@ (cmd :> 1)

\* Variant of SendSeq that goes on with the commands after the one that
\* raises
RECURSIVE SendSeq_PastFailure(_, _, _)
SendSeq_PastFailure(s, cmds, bad) ==
    IF cmds = <<>> THEN s
    ELSE SendSeq_PastFailure(Send(s, Head(cmds)), Tail(cmds), bad)

\* `await dut.exos_jrpc.cli(cmd)` of the commands cmds one after the other,
\* where the execution of the command bad raises: the commands up to it are
\* sent, and it is the last one
RECURSIVE SendSeq(_, _, _)
SendSeq(s, cmds, bad) ==
    IF cmds = <<>> THEN s
    ELSE IF Head(cmds) = bad THEN Send(s, bad)
    ELSE SendSeq(Send(s, Head(cmds)), Tail(cmds), bad)

\* does one of the commands cmds raise
Fails(cmds, bad) == \E i \in DOMAIN cmds : cmds[i] = bad

\* the sequences over S of at most n elements
SeqsUpTo(S, n) == UNION {[1..m -> S] : m \in 0..n}

\* collection.checks holds one check per identifier
DistinctIds(cs) == \A i, j \in DOMAIN cs : i # j => cs[i].id # cs[j].id

CheckIds(cs) == {cs[i].id : i \in DOMAIN cs}

\* the order of the statuses by severity
Severity(st) ==
    CASE st = "PASS" -> 0
      [] st = "INFO" -> 1
      [] st = "WARN" -> 2
      [] st = "SKIP" -> 3
      [] st = "FAIL" -> 4

MostSevere(S) ==
    IF S = {} THEN "PASS"
    ELSE CHOOSE st \in S : \A t \in S : Severity(t) <= Severity(st)

\* CheckResult.measure(on_mismatch): the reconciliation of one expectation
\* with its measurement.  No measurement gives MISSING and compares nothing;
\* a status the executor has set beforehand (INFO for a reserved entity) is
\* kept and nothing is compared; otherwise every field of the measurement is
\* compared with the expected value, an unequal field is put to the override,
\* when there is one, and is FAIL when the override leaves it undecided.
\* k is the position of the check in collection.checks.
Reconcile(k, id, preset, expected, measurement, on_mismatch) ==
    IF measurement = NoRec
    THEN [k |-> k, id |-> id, status |-> "MISSING", measurement |-> NoRec,
          fstatus |-> EmptyFn, consulted |-> {}, logs |-> {}]
    ELSE IF preset # "PASS"
    THEN [k |-> k, id |-> id, status |-> preset, measurement |-> measurement,
          fstatus |-> EmptyFn, consulted |-> {}, logs |-> {}]
    ELSE LET fields == DOMAIN measurement \cap DOMAIN expected
             unequal == {f \in fields : expected[f] # measurement[f]}
             decided(f) == IF on_mismatch = NoRec THEN "None" ELSE on_mismatch[f]
             fst == [f \in fields |->
                        IF f \notin unequal THEN "PASS"
                        ELSE IF decided(f) = "None" THEN "FAIL"
                        ELSE decided(f)]
         IN [k |-> k, id |-> id,
             status |-> MostSevere({fst[f] : f \in fields}),
             measurement |-> measurement,
             fstatus |-> fst,
             consulted |-> IF on_mismatch = NoRec THEN {} ELSE unequal,
             logs |-> {}]

\* the fields of a measurement that have an expected value
Comparable(expected, measurement) ==
    IF measurement = NoRec THEN {} ELSE DOMAIN measurement \cap DOMAIN expected

\* result.measure(on_mismatch=...); on_mismatch gives, for each comparable
\* field, what the executor's on_mismatch returns for it
Measure(k, id, preset, expected, measurement, on_mismatch) ==
    Reconcile(k, id, preset, expected, measurement, on_mismatch)

\* result.measure()
MeasureDefault(k, id, preset, expected, measurement) ==
    Reconcile(k, id, preset, expected, measurement, NoRec)

\* <Category>ExclusiveListCheckResult.measure(): the expected and the measured
\* identifiers are compared as sets; anything missing is FAIL, anything extra
\* is graded on_extra.
MeasureExclusive(expd, msrd, on_extra) ==
    LET missing == expd \ msrd
        extra == msrd \ expd
    IN [k |-> 0, id |-> "exclusive_list",
        status |-> IF missing # {} THEN "FAIL"
                   ELSE IF extra # {} THEN on_extra ELSE "PASS",
        measurement |-> [list |-> msrd],
        fstatus |-> [missing |-> missing, extra |-> extra],
        consulted |-> {}, logs |-> {}]

InitChecks ==
    /\ hname = None
    /\ hpc = "idle"
    /\ device = NoRec
    /\ design = NoRec
    /\ exclusive = FALSE
    /\ checks = <<>>
    /\ idx = 1
    /\ msrds = EmptyFn
    /\ results = <<>>
    /\ sent = EmptyFn
    /\ ran = {}
    /\ failing = None

\* execute_checks(collection) is called on the DUT: the executor h gets the
\* collection inp.checks, and the device answers by inp.device.
StartRun(h, inp) ==
    /\ hpc = "idle"
    /\ h \notin ran
    /\ Cardinality(ran) < MaxRuns
    /\ hname' = h
    /\ hpc' = "collect"
    /\ device' = inp.device
    /\ design' = inp.design
    /\ exclusive' = inp.exclusive
    /\ checks' = inp.checks
    /\ idx' = 1
    /\ msrds' = EmptyFn
    /\ results' = <<>>
    /\ failing' = inp.failing
    /\ UNCHANGED <<sent, ran>>
    /\ UNCHANGED <<cacheVars, dispatchVars, setupVars>>

\* the executor leaves by an exception: its caller gets no results
Raised ==
    /\ hpc' = "raised"
    /\ results' = <<>>

(***************************************************************************)
(* topology/exos_check_interfaces.py                                       *)
(***************************************************************************)

\* the interfaces of the design that the checks are about
IfIds == {"1", "Mgmt", "lag1"}

InterfaceChecks ==
    {c \in [id : IfIds, is_reserved : BOOLEAN, is_forced_unused : BOOLEAN,
            expected : {[used |-> TRUE, desc |-> "a", oper_up |-> TRUE,
                         speed |-> 1000]}] :
        ~(c.is_reserved /\ c.is_forced_unused)}

\* a record of "show ports" for port n; linkState 2 is "not present";
\* portSpeed is the speed code of the port, 0 when no speed is negotiated
PortRecs(n) ==
    {r \in [port : {n}, linkState : {0, 1, 2}, adminState : {0, 1},
            descriptionString : {"a", "b"}, portSpeed : {0, 3}] :
        /\ r.linkState = 2 => (r.adminState = 0 /\ r.descriptionString = "a"
                                  /\ r.portSpeed = 3)
        /\ r.linkState = 1 => r.adminState = 1}

\* a record of "show vlan" for the VLAN that carries the Mgmt port
MgmtVlanRecs ==
    {r \in [name1 : {"Mgmt"}, ipStatus : {0, 1}, linkState : {1},
            adminState : {1}, displayString : {"a", "b"}] :
        r.ipStatus = 0 => r.displayString = "a"}

\* the vlanProc record of "show mgmt"
MgmtRecs ==
    {r \in [linkState : {0, 1}, adminState : {1},
            ipAddress : {"0.0.0.0", "10.0.0.1"}] :
        r.ipAddress = "0.0.0.0" => r.linkState = 1}

\* the lacpLagCfg record of "show lacp lag N"
LacpRecs == [up : {0, 1}, enable : {1}]

\* What the device answers to the interfaces executor, for a collection
\* about the interfaces ids: the record of port 1, of the Mgmt VLAN, of the
\* Mgmt port and of lag1 (NoRec: nothing about it), and port 9, which no
\* check is about and which "show ports" leaves out when it is there.
\* "show mgmt" is only asked when the Mgmt VLAN has no IP address.
IfDevices(ids) ==
    {d \in [port1 : IF "1" \in ids THEN PortRecs(1) \cup {NoRec} ELSE {NoRec},
            port9 : {NoRec, [port |-> 9, linkState |-> 1, adminState |-> 1,
                             descriptionString |-> "a", portSpeed |-> 3]},
            vlan_mgmt : IF "Mgmt" \in ids THEN MgmtVlanRecs \cup {NoRec}
                                          ELSE {NoRec},
            show_mgmt : IF "Mgmt" \in ids THEN MgmtRecs \cup {NoRec}
                                          ELSE {NoRec},
            show_lacp_lag : IF "lag1" \in ids THEN LacpRecs \cup {NoRec}
                                              ELSE {NoRec}] :
        /\ (d.vlan_mgmt # NoRec /\ d.vlan_mgmt.ipStatus = 1) => d.show_mgmt = NoRec
        /\ d.vlan_mgmt = NoRec => d.show_mgmt = NoRec}

\* the collections of at most n checks, one check for an interface
InterfaceCollections(n) ==
    {cs \in SeqsUpTo(InterfaceChecks, n) : DistinctIds(cs)}

\* dev_if_msrds[name] = True, set once a Mgmt or lag interface is checked
TrueRec == [py_true |-> TRUE]

\* `if_name.startswith("lag")`
StartsWithLag(if_name) == if_name \in {"lag1", "lag2"}

\* `if_name.split("lag")[-1]`
LagIdOf(if_name) == CASE if_name = "lag1" -> "1" [] if_name = "lag2" -> "2"

\* lines 88-138: the queries of the executor and the mapping built from them.
\* "show ports" records of ports that are not present (linkState 2) are
\* dropped, the key is str(port); a VLAN with an IP address is added under
\* its name.
IfQueries(d) ==
    <<"show ports information", "show ports">> \o
    (IF d.port9 # NoRec THEN <<"show ports " \o Str(d.port9.port)>> ELSE <<>>) \o
    <<"show vlan">>

IfCollect(d) ==
    LET ports == {r \in {d.port1, d.port9} \ {NoRec} : r.linkState # 2}
        svis == {r \in {d.vlan_mgmt} \ {NoRec} : r.ipStatus # 0}
        names == {Str(r.port) : r \in ports} \cup {r.name1 : r \in svis}
    IN [nm \in names |->
           IF \E r \in svis : r.name1 = nm
           THEN CHOOSE r \in svis : r.name1 = nm
           ELSE CHOOSE r \in ports : Str(r.port) = nm]

\* a Python bool, where an int can stand as well
PyBool(b) == [bool |-> b]

\* `a or b` of Python: a when a is true, b otherwise
PyOr(a, b) == IF a THEN PyBool(TRUE) ELSE b

\* The measurement is a pydantic model (line 293 calls its .dict()): a value
\* given for a bool field is validated into a bool, 0 into False and 1 into
\* True.
AsBool(v) == IF "bool" \in DOMAIN v THEN v.bool ELSE v.int # 0

\* EXosInterfaceMeasurement.from_cli, lines 227-241
IfFromCli(if_data) ==
    LET d1 == Get(if_data, "descriptionString", "")
        d2 == Get(if_data, "displayString", "")
    IN [used |-> if_data.adminState = 1,
        oper_up |-> AsBool(PyOr(if_data.linkState = 1,
                                PyInt(Get(if_data, "ipStatus", 0)))),
        desc |-> IF d1 # "" THEN d1 ELSE d2,
        speed |-> Get(if_data, "portSpeed", 0)]

\* lines 270-281: the speed code of the port in Mbps
IfSpeed(speed, if_name) ==
    CASE speed = 1 -> 10
      [] speed = 2 -> 100
      [] speed = 3 -> 1000
      [] speed = 4 -> 10000
      [] OTHER -> IF if_name = "Mgmt" THEN 1000 ELSE speed

\* Variant of IfOnMismatch that leaves a speed mismatch to the default rule
IfOnMismatch_NoSpeedSkip(is_forced_unused, oper_up, f, e, m) ==
    IF f = "desc"
    THEN (IF is_forced_unused THEN "FAIL" ELSE "WARN")
    ELSE "None"

\* Variant of IfOnMismatch that grades every description mismatch WARN
IfOnMismatch_DescAlwaysWarn(is_forced_unused, oper_up, f, e, m) ==
    IF f = "desc" THEN "WARN"
    ELSE IF f = "speed" /\ oper_up = FALSE THEN "SKIP"
    ELSE "None"

\* on_mismatch of _check_one_interface, lines 308-323
IfOnMismatch(is_forced_unused, oper_up, f, e, m) ==
    IF f = "desc"
    THEN (IF is_forced_unused THEN "FAIL" ELSE "WARN")
    ELSE IF f = "speed" /\ oper_up = FALSE THEN "SKIP"
    ELSE "None"

\* line 298-299: a forced-unused port is expected not to be used; the
\* expected results of the check are overwritten.
IfExpected(check) ==
    IF check.is_forced_unused THEN [check.expected EXCEPT !.used = FALSE]
                              ELSE check.expected

\* does _check_one_interface reach line 299 for this check
IfOverwritesExpected(check, if_msrd) ==
    if_msrd # NoRec /\ ~check.is_reserved /\ check.is_forced_unused

\* Variant of CheckOneInterface that puts the reserved flag first
CheckOneInterface_ReservedFirst(k, check, if_msrd) ==
    IF check.is_reserved
    THEN [MeasureDefault(k, check.id, "INFO", check.expected, EmptyFn)
            EXCEPT !.logs = {<<"INFO", "reserved">>}]
    ELSE IF if_msrd = NoRec
    THEN MeasureDefault(k, check.id, "PASS", check.expected, NoRec)
    ELSE LET raw == IfFromCli(if_msrd)
             measurement == [raw EXCEPT !.speed = IfSpeed(raw.speed, check.id)]
         IN Measure(k, check.id, "PASS", IfExpected(check), measurement,
                    [f \in Comparable(IfExpected(check), measurement) |->
                        IfOnMismatch(check.is_forced_unused, measurement.oper_up,
                                     f, IfExpected(check)[f], measurement[f])])

\* _check_one_interface, lines 244-326: the result of one interface check
\* given the record of the mapping (NoRec when there is none)
CheckOneInterface(k, check, if_msrd) ==
    IF if_msrd = NoRec
    THEN MeasureDefault(k, check.id, "PASS", check.expected, NoRec)
    ELSE LET raw == IfFromCli(if_msrd)
             measurement == [raw EXCEPT !.speed = IfSpeed(raw.speed, check.id)]
         IN IF check.is_reserved
            THEN [MeasureDefault(k, check.id, "INFO", check.expected, EmptyFn)
                    EXCEPT !.logs = {<<"INFO", "reserved">>}]
            ELSE Measure(k, check.id, "PASS", IfExpected(check), measurement,
                         [f \in Comparable(IfExpected(check), measurement) |->
                        IfOnMismatch(check.is_forced_unused, measurement.oper_up,
                                     f, IfExpected(check)[f], measurement[f])])

\* _check_mgmt_interface, lines 351-364, given the vlanProc of "show mgmt"
CheckMgmtInterface(k, check, mgmt_data) ==
    MeasureDefault(k, check.id, "PASS", check.expected,
                   [oper_up |-> mgmt_data.linkState = 1,
                    used |-> (mgmt_data.adminState = 1)
                             /\ (mgmt_data.ipAddress # "0.0.0.0")])

\* _check_one_lag_interface, lines 329-348, given the lacpLagCfg of
\* "show lacp lag N"
CheckOneLagInterface(k, check, lacp_cfg) ==
    MeasureDefault(k, check.id, "PASS", check.expected,
                   [desc |-> check.expected.desc,
                    oper_up |-> lacp_cfg.up = 1,
                    used |-> lacp_cfg.enable = 1])

\* lines 88-138
InterfacesCollect ==
    /\ hname = "exos_check_interfaces"
    /\ hpc = "collect"
    /\ sent' = SendSeq(sent, IfQueries(device), failing)
    /\ IF Fails(IfQueries(device), failing)
       THEN Raised /\ UNCHANGED msrds
       ELSE /\ msrds' = IfCollect(device)
            /\ hpc' = "loop"
            /\ UNCHANGED results
    /\ UNCHANGED <<runFrame, checks, idx>>
    /\ UNCHANGED <<cacheVars, dispatchVars, setupVars>>

\* lines 144-172: one turn of the loop over collection.checks
InterfacesCheck ==
    /\ hname = "exos_check_interfaces"
    /\ hpc = "loop"
    /\ idx <= Len(checks)
    /\ LET check == checks[idx]
           if_name == check.id
       IN IF if_name = "Mgmt" /\ if_name \notin DOMAIN msrds
          THEN /\ sent' = Send(sent, "show mgmt")
               /\ IF failing = "show mgmt" \/ device.show_mgmt = NoRec
                  THEN Raised /\ UNCHANGED <<msrds, idx>>
                  ELSE /\ results' = Append(results,
                              CheckMgmtInterface(idx, check, device.show_mgmt))
                       /\ msrds' = msrds @@ (if_name :> TrueRec)
                       /\ idx' = idx + 1
                       /\ hpc' = hpc
               /\ UNCHANGED checks
          ELSE IF StartsWithLag(if_name)
          THEN /\ sent' = Send(sent, "show lacp lag " \o LagIdOf(if_name))
               /\ IF failing = "show lacp lag " \o LagIdOf(if_name)
                     \/ device.show_lacp_lag = NoRec
                  THEN Raised /\ UNCHANGED <<msrds, idx>>
                  ELSE /\ results' = Append(results,
                              CheckOneLagInterface(idx, check, device.show_lacp_lag))
                       /\ msrds' = msrds @@ (if_name :> TrueRec)
                       /\ idx' = idx + 1
                       /\ hpc' = hpc
               /\ UNCHANGED checks
          ELSE /\ results' = Append(results,
                      CheckOneInterface(idx, check, Get(msrds, if_name, NoRec)))
               /\ checks' = IF IfOverwritesExpected(check, Get(msrds, if_name, NoRec))
                            THEN [checks EXCEPT ![idx].expected = IfExpected(check)]
                            ELSE checks
               /\ idx' = idx + 1
               /\ UNCHANGED <<hpc, msrds, sent>>
    /\ UNCHANGED runFrame
    /\ UNCHANGED <<cacheVars, dispatchVars, setupVars>>

\* lines 178-186: the exclusive list of interfaces, and the return
InterfacesReturn ==
    /\ hname = "exos_check_interfaces"
    /\ hpc = "loop"
    /\ idx > Len(checks)
    /\ results' = IF exclusive
                  THEN Append(results,
                              MeasureExclusive(CheckIds(checks), DOMAIN msrds, "FAIL"))
                  ELSE results
    /\ hpc' = "returned"
    /\ UNCHANGED <<runFrame, checks, idx, msrds, sent>>
    /\ UNCHANGED <<cacheVars, dispatchVars, setupVars>>

\* the interfaces executor is run on a collection of at most MaxChecks checks
\* a device that has every interface of ids, up and as designed
IfHealthy(ids, d) ==
    /\ d.port9 = NoRec
    /\ "1" \in ids => (d.port1 # NoRec /\ d.port1.linkState = 1
                          /\ d.port1.descriptionString = "a")
    /\ "Mgmt" \in ids => (d.vlan_mgmt # NoRec /\ d.vlan_mgmt.ipStatus = 0
                             /\ d.show_mgmt # NoRec /\ d.show_mgmt.linkState = 1
                             /\ d.show_mgmt.ipAddress # "0.0.0.0")
    /\ "lag1" \in ids => (d.show_lacp_lag # NoRec /\ d.show_lacp_lag.up = 1)

\* the commands of the executor of which one may raise in a run
StartInterfaces(n, healthy) ==
    /\ hpc = "idle"
    /\ \E cs \in InterfaceCollections(n), ex \in BOOLEAN,
          fl \in {None, "show ports", "show vlan", "show mgmt",
                  "show lacp lag 1"} :
          \E d \in IfDevices(CheckIds(cs)) :
             /\ (d.port9 # NoRec) => ex
             /\ healthy => (IfHealthy(CheckIds(cs), d) /\ ~ex /\ fl = None)
             /\ StartRun("exos_check_interfaces",
                         [checks |-> cs, exclusive |-> ex, device |-> d,
                          design |-> NoRec, failing |-> fl])

(***************************************************************************)
(* topology/exos_check_transceivers.py                                     *)
(***************************************************************************)

\* the ports of the design that the transceiver checks are about
XcvrIds == {"1", "2"}

TransceiverChecks ==
    [id : XcvrIds, is_reserved : BOOLEAN,
     expected : {[model |-> "m1", type |-> "t1"]}]

\* a show_ports_transceiver record of port n; an empty partNumber or
\* slNumber stands for a record without one
XcvrRecs(n) ==
    {r \in [port : {n}, partNumber : {"", "m1", "m2"},
            mediaType : {"t1 LC", "t2 LC"}, slNumber : {"", "s1"}] :
        /\ r.partNumber = "" => r.mediaType = "t1 LC"
        /\ r.mediaType = "t2 LC" => (r.partNumber = "m1" /\ r.slNumber = "s1")}

\* What the device answers to "show port transceiver information" for a
\* collection about the ports ids, and what the matchers of the netcad
\* library (transceiver_model_matches, transceiver_type_matches) say of a
\* value that differs from the expected one.
XcvrDevices(ids) ==
    [port1 : IF "1" \in ids THEN XcvrRecs(1) \cup {NoRec} ELSE {NoRec},
     port2 : IF "2" \in ids THEN XcvrRecs(2) \cup {NoRec} ELSE {NoRec},
     port9 : {NoRec, [port |-> 9, partNumber |-> "m1", mediaType |-> "t1 LC",
                      slNumber |-> "s1"]},
     lib_ok : BOOLEAN]

TransceiverCollections(n) ==
    {cs \in SeqsUpTo(TransceiverChecks, n) : DistinctIds(cs)}

\* lines 77-81: dev_xcvr_ifstatus, keyed by str(port)
XcvrCollect(d) ==
    LET recs == {d.port1, d.port2, d.port9} \ {NoRec}
    IN [nm \in {Str(r.port) : r \in recs} |->
           CHOOSE r \in recs : Str(r.port) = nm]

\* `if_xcvr["mediaType"].split()[0]`
FirstWord(s) == CASE s = "t1 LC" -> "t1" [] s = "t2 LC" -> "t2"

\* on_mismatch of _check_one_interface, lines 198-209
XcvrOnMismatch(lib_ok, f, e, m) ==
    IF f \in {"model", "type"}
    THEN (IF lib_ok THEN "PASS" ELSE "FAIL")
    ELSE "FAIL"

\* _check_one_interface, lines 176-211
XcvrCheckOneInterface(k, check, if_xcvr, lib_ok) ==
    IF Get(if_xcvr, "partNumber", "") = ""
    THEN MeasureDefault(k, check.id, "PASS", check.expected, NoRec)
    ELSE LET msrd == [model |-> if_xcvr.partNumber,
                      type |-> FirstWord(if_xcvr.mediaType)]
         IN Measure(k, check.id, "PASS", check.expected, msrd,
                    [f \in Comparable(check.expected, msrd) |->
                        XcvrOnMismatch(lib_ok, f, check.expected[f], msrd[f])])

\* the ports of the checks whose interface profile is reserved
XcvrReserved(cs) == {cs[i].id : i \in {j \in DOMAIN cs : cs[j].is_reserved}}

\* a device that has the designed transceiver in every port of ids
XcvrHealthy(ids, d) ==
    /\ d.port9 = NoRec /\ d.lib_ok
    /\ "1" \in ids => (d.port1 # NoRec /\ d.port1.partNumber = "m1"
                          /\ d.port1.mediaType = "t1 LC" /\ d.port1.slNumber = "s1")
    /\ "2" \in ids => (d.port2 # NoRec /\ d.port2.partNumber = "m1"
                          /\ d.port2.mediaType = "t1 LC" /\ d.port2.slNumber = "s1")

StartTransceivers(n, healthy) ==
    /\ hpc = "idle"
    /\ \E cs \in TransceiverCollections(n), ex \in BOOLEAN,
          fl \in {None, "show port transceiver information"} :
          \E d \in XcvrDevices(CheckIds(cs)) :
             /\ (d.port9 # NoRec) => ex
             /\ healthy => (XcvrHealthy(CheckIds(cs), d) /\ ~ex /\ fl = None)
             /\ StartRun("exos_check_transceivers",
                         [checks |-> cs, exclusive |-> ex, device |-> d,
                          design |-> NoRec, failing |-> fl])

\* lines 77-95
TransceiversCollect ==
    /\ hname = "exos_check_transceivers"
    /\ hpc = "collect"
    /\ sent' = Send(sent, "show port transceiver information")
    /\ IF failing = "show port transceiver information"
       THEN Raised /\ UNCHANGED msrds
       ELSE /\ msrds' = XcvrCollect(device)
            /\ hpc' = "loop"
            /\ UNCHANGED results
    /\ UNCHANGED <<runFrame, checks, idx>>
    /\ UNCHANGED <<cacheVars, dispatchVars, setupVars>>

\* lines 97-117: one turn of the loop; dev_xcvr_ifstatus[if_name] raises
\* KeyError for a port that is not in the mapping
TransceiversCheck ==
    /\ hname = "exos_check_transceivers"
    /\ hpc = "loop"
    /\ idx <= Len(checks)
    /\ LET check == checks[idx]
           if_name == check.id
       IN IF if_name \notin DOMAIN msrds
          THEN Raised /\ UNCHANGED idx
          ELSE /\ results' = Append(results,
                      IF check.is_reserved
                      THEN [MeasureDefault(idx, if_name, "INFO", check.expected,
                                           EmptyFn)
                              EXCEPT !.logs = {<<"INFO", "reserved">>}]
                      ELSE XcvrCheckOneInterface(idx, check, msrds[if_name],
                                                 device.lib_ok))
               /\ idx' = idx + 1
               /\ hpc' = hpc
    /\ UNCHANGED <<runFrame, checks, msrds, sent>>
    /\ UNCHANGED <<cacheVars, dispatchVars, setupVars>>

\* Variant of TransceiversReturn that leaves the reserved ports in the
\* measured set
TransceiversReturn_KeepReserved ==
    /\ hname = "exos_check_transceivers"
    /\ hpc = "loop"
    /\ idx > Len(checks)
    /\ LET rsvd == XcvrReserved(checks)
           expd == CheckIds(checks) \ rsvd
           inv == {nm \in DOMAIN msrds : Get(msrds[nm], "slNumber", "") # ""}
       IN results' = IF exclusive
                     THEN Append(results, MeasureExclusive(expd \ rsvd, inv, "INFO"))
                     ELSE results
    /\ hpc' = "returned"
    /\ UNCHANGED <<runFrame, checks, idx, msrds, sent>>
    /\ UNCHANGED <<cacheVars, dispatchVars, setupVars>>

\* lines 123-136 and _check_exclusive_list, lines 146-173
TransceiversReturn ==
    /\ hname = "exos_check_transceivers"
    /\ hpc = "loop"
    /\ idx > Len(checks)
    /\ LET rsvd == XcvrReserved(checks)
           expd == CheckIds(checks) \ rsvd
           inv == {nm \in DOMAIN msrds : Get(msrds[nm], "slNumber", "") # ""}
       IN results' = IF exclusive
                     THEN Append(results,
                                 MeasureExclusive(expd \ rsvd, inv \ rsvd, "INFO"))
                     ELSE results
    /\ hpc' = "returned"
    /\ UNCHANGED <<runFrame, checks, idx, msrds, sent>>
    /\ UNCHANGED <<cacheVars, dispatchVars, setupVars>>

(***************************************************************************)
(* topology/exos_check_cabling.py                                          *)
(***************************************************************************)

CablingIds == {"1", "2"}

CablingChecks == [id : CablingIds, expected : {[device |-> "sw2", port_id |-> "p1"]}]

\* a record of "show lldp neighbors" for port n: the lldpPortNbrInfoShort of
\* a neighbor, or a record of another kind
LldpRecs(n) ==
    [port : {n}, nbrSysName : {"sw2", "sw3"}, nbrPortID : {"p1", "p2"}]
        \cup {[other |-> n]}

\* What the device answers to "show lldp neighbors", and what the matchers
\* of the netcad library (nei_hostname_match, nei_interface_match) say of a
\* value that differs from the expected one.
CablingDevices(ids) ==
    [port1 : IF "1" \in ids THEN LldpRecs(1) \cup {NoRec} ELSE {NoRec},
     port2 : IF "2" \in ids THEN LldpRecs(2) \cup {NoRec} ELSE {NoRec},
     lib_ok : BOOLEAN]

CablingCollections(n) == {cs \in SeqsUpTo(CablingChecks, n) : DistinctIds(cs)}

\* lines 77-82: dev_lldpnei_ifname, keyed by str(port); records without
\* lldpPortNbrInfoShort are left out
CablingCollect(d) ==
    LET recs == {r \in {d.port1, d.port2} \ {NoRec} : "port" \in DOMAIN r}
    IN [nm \in {Str(r.port) : r \in recs} |->
           CHOOSE r \in recs : Str(r.port) = nm]

\* on_mismatch of _check_one_interface, lines 116-124
CablingOnMismatch(lib_ok, f, e, m) ==
    IF f \in {"device", "port_id"} /\ lib_ok THEN "PASS" ELSE "FAIL"

\* lines 84-96 and _check_one_interface, lines 101-126
CablingCheckOne(k, check, port_nei, lib_ok) ==
    IF port_nei = NoRec
    THEN MeasureDefault(k, check.id, "PASS", check.expected, NoRec)
    ELSE LET msrd == [device |-> port_nei.nbrSysName,
                      port_id |-> port_nei.nbrPortID]
         IN Measure(k, check.id, "PASS", check.expected, msrd,
                    [f \in Comparable(check.expected, msrd) |->
                        CablingOnMismatch(lib_ok, f, check.expected[f], msrd[f])])

\* a device that has the designed neighbor on every port of ids
CablingHealthy(ids, d) ==
    /\ d.lib_ok
    /\ "1" \in ids => (d.port1 # NoRec /\ "port" \in DOMAIN d.port1
                          /\ d.port1.nbrSysName = "sw2" /\ d.port1.nbrPortID = "p1")
    /\ "2" \in ids => (d.port2 # NoRec /\ "port" \in DOMAIN d.port2
                          /\ d.port2.nbrSysName = "sw2" /\ d.port2.nbrPortID = "p1")

StartCabling(n, healthy) ==
    /\ hpc = "idle"
    /\ \E cs \in CablingCollections(n), fl \in {None, "show lldp neighbors"} :
          \E d \in CablingDevices(CheckIds(cs)) :
             /\ healthy => (CablingHealthy(CheckIds(cs), d) /\ fl = None)
             /\ StartRun("exos_check_cabling",
                      [checks |-> cs, exclusive |-> FALSE, device |-> d,
                       design |-> NoRec, failing |-> fl])

\* lines 73-82
CablingCollectLldp ==
    /\ hname = "exos_check_cabling"
    /\ hpc = "collect"
    /\ sent' = Send(sent, "show lldp neighbors")
    /\ IF failing = "show lldp neighbors"
       THEN Raised /\ UNCHANGED msrds
       ELSE /\ msrds' = CablingCollect(device)
            /\ hpc' = "loop"
            /\ UNCHANGED results
    /\ UNCHANGED <<runFrame, checks, idx>>
    /\ UNCHANGED <<cacheVars, dispatchVars, setupVars>>

\* lines 84-96: one turn of the loop
CablingCheck ==
    /\ hname = "exos_check_cabling"
    /\ hpc = "loop"
    /\ idx <= Len(checks)
    /\ results' = Append(results,
                         CablingCheckOne(idx, checks[idx],
                                         Get(msrds, checks[idx].id, NoRec),
                                         device.lib_ok))
    /\ idx' = idx + 1
    /\ UNCHANGED <<runFrame, hpc, checks, msrds, sent>>
    /\ UNCHANGED <<cacheVars, dispatchVars, setupVars>>

\* line 98
CablingReturn ==
    /\ hname = "exos_check_cabling"
    /\ hpc = "loop"
    /\ idx > Len(checks)
    /\ hpc' = "returned"
    /\ UNCHANGED <<runFrame, checks, idx, msrds, results, sent>>
    /\ UNCHANGED <<cacheVars, dispatchVars, setupVars>>

(***************************************************************************)
(* vlans/exos_check_switchports.py                                         *)
(***************************************************************************)

\* The key of a Python dict for the port number n as the device reports it:
\* the int n is another key than the str "n".
IntKey(n) == "int:" \o Str(n)

RawKey(ports_as, n) == IF ports_as = "str" THEN Str(n) ELSE IntKey(n)

SwIds == {"1", "2", "lag1"}

\* expected_results of a switchport check: VLANs are given as VlanProfile
SwExpected ==
    {[switchport_mode |-> "access", vlan |-> [vlan_id |-> 10]]} \cup
    [switchport_mode : {"trunk"}, native_vlan : {NoRec, [vlan_id |-> 10]},
     trunk_allowed_vlans : {{[vlan_id |-> 20]}}]

SwitchportChecks ==
    {c \in [id : SwIds, expected : SwExpected] :
        StartsWithLag(c.id) => c.expected.switchport_mode = "access"}

\* the VLANs of one port in "show ports vlan port-number"
SwPortVlans ==
    {[untagged |-> PyInt(10), tagged |-> {}],
     [untagged |-> PyInt(30), tagged |-> {}],
     [untagged |-> PyInt(10), tagged |-> {20}],
     [untagged |-> NoRec, tagged |-> {20}]}

\* What the device answers: the VLAN records of ports 1 and 2 (NoRec: none),
\* the ldShareMaster of port 2 (0: none), and whether port numbers are
\* reported as JSON numbers or as strings.
SwDevices(ids) ==
    [ports_as : {"int", "str"},
     vlans1 : IF "1" \in ids THEN SwPortVlans \cup {NoRec} ELSE {NoRec},
     vlans2 : IF "2" \in ids THEN SwPortVlans \cup {NoRec} ELSE {NoRec},
     share2 : IF "2" \in ids THEN {0, 1, 2} ELSE {0}]

SwitchportCollections(n) ==
    {cs \in SeqsUpTo(SwitchportChecks, n) : DistinctIds(cs)}

\* the value of the defaultdict msrd_switchports for a key it has not got
SwDefault == [untagged |-> NoRec, tagged |-> {}]

\* Variant of SwCollect that gives a port the entry of its ldShareMaster
\* also when the port has VLAN records of its own
SwCollect_OverwriteOwn(d) ==
    LET key(n) == RawKey(d.ports_as, n)
        own == (IF d.vlans1 # NoRec THEN (key(1) :> d.vlans1) ELSE EmptyFn)
               @@ (IF d.vlans2 # NoRec THEN (key(2) :> d.vlans2) ELSE EmptyFn)
        ld_share == d.share2
    IN IF ld_share # 0 /\ ld_share # 2
       THEN LET master == Get(own, key(ld_share), SwDefault)
            IN (key(2) :> master) @@ (key(ld_share) :> master) @@ own
       ELSE own

\* lines 79-114: msrd_switchports, keyed by the port as reported; a port
\* whose ldShareMaster is another port and that has no VLAN records gets the
\* entry of that port, which the defaultdict makes when it is not there
SwCollect(d) ==
    LET key(n) == RawKey(d.ports_as, n)
        own == (IF d.vlans1 # NoRec THEN (key(1) :> d.vlans1) ELSE EmptyFn)
               @@ (IF d.vlans2 # NoRec THEN (key(2) :> d.vlans2) ELSE EmptyFn)
        ld_share == d.share2
    IN IF ld_share # 0 /\ ld_share # 2 /\ key(2) \notin DOMAIN own
       THEN LET master == Get(own, key(ld_share), SwDefault)
            IN (key(2) :> master) @@ (key(ld_share) :> master) @@ own
       ELSE own

\* lines 175 and 196-201: the expected results are overwritten with VLAN ids
SwExpectedIds(expected) ==
    IF expected.switchport_mode = "access"
    THEN [expected EXCEPT !.vlan = PyInt(@.vlan_id)]
    ELSE [expected EXCEPT
            !.native_vlan = IF @ = NoRec THEN NoRec ELSE PyInt(@.vlan_id),
            !.trunk_allowed_vlans = {p.vlan_id : p \in @}]

SwMode(msrd_port) == IF msrd_port.tagged # {} THEN "trunk" ELSE "access"

\* does the check reach _check_access_switchport or _check_trunk_switchport
SwOverwritesExpected(check, msrd_port) ==
    /\ ~StartsWithLag(check.id)
    /\ msrd_port # NoRec
    /\ check.expected.switchport_mode = SwMode(msrd_port)

\* lines 130-156, _check_access_switchport and _check_trunk_switchport
SwCheckOne(k, check, msrd_port) ==
    IF msrd_port = NoRec
    THEN MeasureDefault(k, check.id, "PASS", check.expected, NoRec)
    ELSE IF check.expected.switchport_mode # SwMode(msrd_port)
    THEN MeasureDefault(k, check.id, "PASS", check.expected,
                        [switchport_mode |-> SwMode(msrd_port)])
    ELSE IF check.expected.switchport_mode = "access"
    THEN MeasureDefault(k, check.id, "PASS", SwExpectedIds(check.expected),
                        [switchport_mode |-> "access",
                         vlan |-> msrd_port.untagged])
    ELSE MeasureDefault(k, check.id, "PASS", SwExpectedIds(check.expected),
                        [switchport_mode |-> "trunk",
                         native_vlan |-> msrd_port.untagged,
                         trunk_allowed_vlans |-> msrd_port.tagged])

\* a device that has VLAN 10 untagged on every port of ids
SwHealthy(ids, d) ==
    /\ d.ports_as = "str" /\ d.share2 = 0
    /\ "1" \in ids => d.vlans1 = [untagged |-> PyInt(10), tagged |-> {}]
    /\ "2" \in ids => d.vlans2 = [untagged |-> PyInt(10), tagged |-> {}]

StartSwitchports(n, healthy) ==
    /\ hpc = "idle"
    /\ \E cs \in SwitchportCollections(n),
          fl \in {None, "show ports vlan port-number"} :
          \E d \in SwDevices(CheckIds(cs)) :
             /\ healthy => (SwHealthy(CheckIds(cs), d) /\ fl = None)
             /\ StartRun("exos_check_switchports",
                      [checks |-> cs, exclusive |-> FALSE, device |-> d,
                       design |-> NoRec, failing |-> fl])

\* lines 79-114
SwitchportsCollect ==
    /\ hname = "exos_check_switchports"
    /\ hpc = "collect"
    /\ sent' = Send(sent, "show ports vlan port-number")
    /\ IF failing = "show ports vlan port-number"
       THEN Raised /\ UNCHANGED msrds
       ELSE /\ msrds' = SwCollect(device)
            /\ hpc' = "loop"
            /\ UNCHANGED results
    /\ UNCHANGED <<runFrame, checks, idx>>
    /\ UNCHANGED <<cacheVars, dispatchVars, setupVars>>

\* lines 121-156: one turn of the loop; a lag interface is passed over
SwitchportsCheck ==
    /\ hname = "exos_check_switchports"
    /\ hpc = "loop"
    /\ idx <= Len(checks)
    /\ LET check == checks[idx]
           msrd_port == Get(msrds, check.id, NoRec)
       IN IF StartsWithLag(check.id)
          THEN UNCHANGED <<results, checks>>
          ELSE /\ results' = Append(results, SwCheckOne(idx, check, msrd_port))
               /\ checks' = IF SwOverwritesExpected(check, msrd_port)
                            THEN [checks EXCEPT
                                    ![idx].expected = SwExpectedIds(@)]
                            ELSE checks
    /\ idx' = idx + 1
    /\ UNCHANGED <<runFrame, hpc, msrds, sent>>
    /\ UNCHANGED <<cacheVars, dispatchVars, setupVars>>

\* line 159
SwitchportsReturn ==
    /\ hname = "exos_check_switchports"
    /\ hpc = "loop"
    /\ idx > Len(checks)
    /\ hpc' = "returned"
    /\ UNCHANGED <<runFrame, checks, idx, msrds, results, sent>>
    /\ UNCHANGED <<cacheVars, dispatchVars, setupVars>>

(***************************************************************************)
(* vlans/exos_check_vlans.py                                               *)
(***************************************************************************)

VlanIds == {"10", "20"}

\* int(check.check_id())
ToInt(s) == CHOOSE n \in 0..99 : Str(n) = s

VlanChecks ==
    [id : VlanIds,
     expected : [name : {"", "Printers"},
                 interfaces : {<<"1">>, <<"1", "2">>, <<"lag1">>, <<"3">>}]]

\* dut.device_info and dut.device: the virtual interfaces, the lag
\* interfaces and the members of each lag
VlanDesigns ==
    {[virtual |-> {}, lags |-> {}, members |-> <<>>],
     [virtual |-> {"vlan10"}, lags |-> {"lag1"}, members |-> <<"1", "2">>]}

\* the vlanProc record of "show vlan" for the VLAN with this tag
VlanRecs(tag) ==
    [tag : {tag}, name1 : {"Printers", "Video"}, adminState : {1},
     activePorts : {0, 1}]

\* What the device answers: the record of each VLAN in "show vlan" (NoRec:
\* none), the ports in "show vlan <name>", and the ports of the load-share
\* master 1 in "show port sharing"
VlanDevices(ids) ==
    [vlan10 : IF "10" \in ids THEN VlanRecs(10) \cup {NoRec} ELSE {NoRec},
     vlan20 : {[tag |-> 20, name1 |-> "Video", adminState |-> 1,
                activePorts |-> 1], NoRec},
     ports : {<<>>, <<1>>, <<2, 1>>, <<1, 2>>, <<3>>},
     sharing : {{}, {1, 2}}]

VlanCollections(n) == {cs \in SeqsUpTo(VlanChecks, n) : DistinctIds(cs)}

\* lines 69-79: vlan_data_map, keyed by the tag (an int)
VlanCollect(d) ==
    LET recs == {d.vlan10, d.vlan20} \ {NoRec}
    IN [key \in {IntKey(r.tag) : r \in recs} |->
           LET r == CHOOSE x \in recs : IntKey(x.tag) = key
           IN [vlan_id |-> r.tag, name |-> r.name1,
               admin_up |-> r.adminState = 1, active_ports |-> r.activePorts]]

\* lines 86-94: ls_port_map, load-share master -> ports, both str()
LsPortMap(d) ==
    IF d.sharing = {} THEN EmptyFn
    ELSE ("1" :> {Str(p) : p \in d.sharing})

\* lines 181-189: the ports of "show vlan <name>", str()
VlanPorts(d) == [i \in DOMAIN d.ports |-> Str(d.ports[i])]

SeqToSet(s) == {s[i] : i \in DOMAIN s}

\* lines 224-235: the loop over the members of the lag interfaces
RECURSIVE LagExpand(_, _, _)
LagExpand(expd, members, ls_port_map) ==
    IF members = <<>> THEN expd
    ELSE LET m == Head(members)
         IN LagExpand(IF m \in DOMAIN ls_port_map
                      THEN (expd \ ls_port_map[m]) \cup {m}
                      ELSE expd,
                      Tail(members), ls_port_map)

\* lines 196-235: expd_ifs_set
VlanExpdIfs(check, dsn, ls_port_map) ==
    LET e1 == SeqToSet(check.expected.interfaces) \ dsn.virtual
    IN IF dsn.lags = {} THEN e1
       ELSE LagExpand(e1 \ dsn.lags, dsn.members, ls_port_map)

\* on_mismatch of _check_one_vlan, lines 250-277
VlanOnMismatch(excl, msrd_ifs, expd_ifs, f, e, m) ==
    IF f = "name" THEN "PASS"
    ELSE IF f = "interfaces"
    THEN (IF excl
          THEN (IF msrd_ifs = expd_ifs THEN "PASS" ELSE "None")
          ELSE (IF (msrd_ifs \cap expd_ifs) = expd_ifs THEN "PASS" ELSE "None"))
    ELSE "None"

\* Variant of CheckOneVlan that reports the extra interfaces only when none
\* is missing
CheckOneVlan_ExtraUnlessMissing(k, check, vlan_status, d, dsn, excl) ==
    LET ports == VlanPorts(d)
        msrd_ifs == SeqToSet(ports)
        expd_ifs == VlanExpdIfs(check, dsn, LsPortMap(d))
        measurement == [oper_up |-> vlan_status.active_ports # 0,
                        name |-> vlan_status.name,
                        interfaces |-> ports]
        r == Measure(k, check.id, "PASS", check.expected, measurement,
                     [f \in Comparable(check.expected, measurement) |->
                        VlanOnMismatch(excl, msrd_ifs, expd_ifs, f,
                                       check.expected[f], measurement[f])])
        l1 == IF excl /\ (expd_ifs \ msrd_ifs) # {}
              THEN {<<"FAIL", "interfaces", "missing", expd_ifs \ msrd_ifs>>}
              ELSE {}
        l2 == IF excl /\ l1 = {} /\ (msrd_ifs \ expd_ifs) # {}
              THEN {<<"FAIL", "interfaces", "extra", msrd_ifs \ expd_ifs>>}
              ELSE {}
        l3 == IF "name" \in r.consulted /\ check.expected.name # ""
              THEN {<<"WARN", "name">>} ELSE {}
    IN [r EXCEPT !.logs = l1 \cup l2 \cup l3,
                 !.status = IF l1 \cup l2 # {} THEN "FAIL" ELSE @]

\* _check_one_vlan, lines 165-279.  The entries that the executor logs with
\* the level FAIL before it calls measure() (lines 239-248) are the VLAN
\* category's escalation: they make the outcome FAIL.  The WARN entry of a
\* name mismatch is an annotation.
CheckOneVlan(k, check, vlan_status, d, dsn, excl) ==
    LET ports == VlanPorts(d)
        msrd_ifs == SeqToSet(ports)
        expd_ifs == VlanExpdIfs(check, dsn, LsPortMap(d))
        measurement == [oper_up |-> vlan_status.active_ports # 0,
                        name |-> vlan_status.name,
                        interfaces |-> ports]
        r == Measure(k, check.id, "PASS", check.expected, measurement,
                     [f \in Comparable(check.expected, measurement) |->
                        VlanOnMismatch(excl, msrd_ifs, expd_ifs, f,
                                       check.expected[f], measurement[f])])
        l1 == IF excl /\ (expd_ifs \ msrd_ifs) # {}
              THEN {<<"FAIL", "interfaces", "missing", expd_ifs \ msrd_ifs>>}
              ELSE {}
        l2 == IF excl /\ (msrd_ifs \ expd_ifs) # {}
              THEN {<<"FAIL", "interfaces", "extra", msrd_ifs \ expd_ifs>>}
              ELSE {}
        l3 == IF "name" \in r.consulted /\ check.expected.name # ""
              THEN {<<"WARN", "name">>} ELSE {}
    IN [r EXCEPT !.logs = l1 \cup l2 \cup l3,
                 !.status = IF l1 \cup l2 # {} THEN "FAIL" ELSE @]

\* a device that has every VLAN of ids, with port 1 in it
VlanHealthy(ids, d) ==
    /\ d.ports = <<1>> /\ d.sharing = {}
    /\ "10" \in ids => (d.vlan10 # NoRec /\ d.vlan10.activePorts = 1)
    /\ "20" \in ids => d.vlan20 # NoRec

StartVlans(n, healthy) ==
    /\ hpc = "idle"
    /\ \E cs \in VlanCollections(n), ex \in BOOLEAN, dsn \in VlanDesigns,
          fl \in {None, "show port sharing", "show vlan Video"} :
          \E d \in VlanDevices(CheckIds(cs)) :
             /\ healthy => (VlanHealthy(CheckIds(cs), d) /\ ~ex /\ dsn.lags = {}
                               /\ fl = None)
             /\ StartRun("eos_check_vlans",
                      [checks |-> cs, exclusive |-> ex, device |-> d,
                       design |-> dsn, failing |-> fl])

\* lines 69-94
VlansCollect ==
    /\ hname = "eos_check_vlans"
    /\ hpc = "collect"
    /\ sent' = SendSeq(sent, <<"show vlan", "show port sharing">>, failing)
    /\ IF Fails(<<"show vlan", "show port sharing">>, failing)
       THEN Raised /\ UNCHANGED msrds
       ELSE /\ msrds' = VlanCollect(device)
            /\ hpc' = "loop"
            /\ UNCHANGED results
    /\ UNCHANGED <<runFrame, checks, idx>>
    /\ UNCHANGED <<cacheVars, dispatchVars, setupVars>>

\* lines 103-125: one turn of the loop
VlansCheck ==
    /\ hname = "eos_check_vlans"
    /\ hpc = "loop"
    /\ idx <= Len(checks)
    /\ LET check == checks[idx]
           vlan_status == Get(msrds, IntKey(ToInt(check.id)), NoRec)
       IN IF vlan_status = NoRec
          THEN /\ results' = Append(results,
                      MeasureDefault(idx, check.id, "PASS", check.expected, NoRec))
               /\ idx' = idx + 1
               /\ UNCHANGED <<hpc, sent>>
          ELSE /\ sent' = Send(sent, "show vlan " \o vlan_status.name)
               /\ IF failing = "show vlan " \o vlan_status.name
                  THEN Raised /\ UNCHANGED idx
                  ELSE /\ results' = Append(results,
                              CheckOneVlan(idx, check, vlan_status, device,
                                           design, exclusive))
                       /\ idx' = idx + 1
                       /\ hpc' = hpc
    /\ UNCHANGED <<runFrame, checks, msrds>>
    /\ UNCHANGED <<cacheVars, dispatchVars, setupVars>>

\* lines 127-135: the exclusive list of VLANs is not checked
VlansReturn ==
    /\ hname = "eos_check_vlans"
    /\ hpc = "loop"
    /\ idx > Len(checks)
    /\ hpc' = "returned"
    /\ UNCHANGED <<runFrame, checks, idx, msrds, results, sent>>
    /\ UNCHANGED <<cacheVars, dispatchVars, setupVars>>

(***************************************************************************)
(* topology/exos_check_ipaddrs.py                                          *)
(***************************************************************************)

IpIds == {"Mgmt", "vlan10"}

IPInterfaceChecks ==
    [id : IpIds,
     expected : [if_ipaddr : {"10.0.0.1/8", "is_reserved"}, oper_up : {TRUE}]]

\* dut.device_info["interfaces"]: whether the SVI is enabled, and of the
\* port "1" whether it is enabled and whether it is reserved
IpDesigns ==
    [svi_enabled : BOOLEAN, port_enabled : BOOLEAN, port_reserved : BOOLEAN]

\* the ifIpConfig record of "show ipconfig" for the VLAN vlan10; prefixLen 0
\* stands for a record without prefixLen
IpCfgRecs ==
    {r \in [vlan : {"vlan10"}, ipAddress : {"0.0.0.0", "10.0.0.1", "10.0.0.2"},
            prefixLen : {0, 8}, flags : {"EU", "E"}] :
        /\ r.ipAddress = "0.0.0.0" => (r.prefixLen = 8 /\ r.flags = "EU")
        /\ r.prefixLen = 0 => (r.ipAddress = "10.0.0.1" /\ r.flags = "EU")}

\* the vlanProc record of "show Mgmt"
IpMgmtRecs ==
    {r \in [ipAddress : {"0.0.0.0", "10.0.0.1"}, maskForDisplay : {8},
            linkState : {0, 1}] :
        r.ipAddress = "0.0.0.0" => r.linkState = 0}

\* What the device answers: the record of vlan10 in "show ipconfig", the
\* record of "show Mgmt" (NoRec: an empty response), the ports of
\* "show vlan vlan10" and whether port numbers are JSON numbers or strings.
IpDevices(ids) ==
    {d \in [ipcfg10 : IF "vlan10" \in ids THEN IpCfgRecs \cup {NoRec}
                                          ELSE {NoRec},
            show_mgmt : IpMgmtRecs \cup {NoRec},
            members : IF "vlan10" \in ids THEN {{}, {1}} ELSE {{}},
            ports_as : {"int", "str"}] :
        /\ d.members = {} => d.ports_as = "int"
        /\ "Mgmt" \notin ids => d.show_mgmt \in {NoRec,
               [ipAddress |-> "10.0.0.1", maskForDisplay |-> 8, linkState |-> 1]}}

IPInterfaceCollections(n) ==
    {cs \in SeqsUpTo(IPInterfaceChecks, n) : DistinctIds(cs)}

\* lines 79-87: dev_vlan_ifcfgs, keyed by the VLAN name
IpCollect(d) ==
    IF d.ipcfg10 # NoRec /\ d.ipcfg10.ipAddress # "0.0.0.0"
    THEN (d.ipcfg10.vlan :> d.ipcfg10)
    ELSE EmptyFn

\* `if_name.casefold()`
Casefold(s) == IF s = "Mgmt" THEN "mgmt" ELSE s

\* `"U" in msrd_data["flags"]`
HasU(flags) == flags \in {"EU", "U"}

\* _check_mgmt_interface, lines 152-166
IpCheckMgmtInterface(k, check, msrd_data) ==
    MeasureDefault(k, check.id, "PASS", check.expected,
                   [if_ipaddr |-> msrd_data.ipAddress \o "/"
                                     \o Str(msrd_data.maskForDisplay),
                    oper_up |-> msrd_data.linkState = 1])

\* lines 302-323 of _check_vlan_assoc_interface: vlan_if_ports is keyed by
\* the port as reported and dut_ifs by the interface name; TRUE when
\* dut_ifs[check_ifname] raises KeyError
IpAssocRaises(d) == \E p \in d.members : RawKey(d.ports_as, p) # Str(p)

\* line 325: are all ports of the VLAN disabled or reserved in the design
IpAllDisregarded(d, dsn) ==
    \A p \in d.members : (~dsn.port_enabled) \/ dsn.port_reserved

\* on_mismatch of _check_vlan_assoc_interface, lines 338-339
IpOnMismatch(f, e, m) == IF f = "oper_up" THEN "PASS" ELSE "FAIL"

\* does _check_one_interface reach _check_vlan_assoc_interface, lines 232-240
IpGoesToAssoc(msrd_data, dsn) ==
    /\ msrd_data.prefixLen # 0
    /\ dsn.svi_enabled
    /\ ~HasU(msrd_data.flags)

\* _check_one_interface, lines 172-244, and _check_vlan_assoc_interface,
\* lines 272-343: the results appended for one check, in order.  The result
\* of a reserved address is appended at line 214 and the same object is
\* measured on.
IpCheckOneInterface(k, check, msrd_data, d, dsn) ==
    IF msrd_data.prefixLen = 0
    THEN <<MeasureDefault(k, check.id, "PASS", check.expected, NoRec)>>
    ELSE LET reserved == check.expected.if_ipaddr = "is_reserved"
             preset == IF reserved THEN "INFO" ELSE "PASS"
             measurement == [if_ipaddr |-> msrd_data.ipAddress \o "/"
                                              \o Str(msrd_data.prefixLen),
                             oper_up |-> HasU(msrd_data.flags)]
             plain == MeasureDefault(k, check.id, preset, check.expected,
                                     measurement)
             passed == [Measure(k, check.id, preset, check.expected, measurement,
                                [f \in Comparable(check.expected, measurement) |->
                                    IpOnMismatch(f, check.expected[f],
                                                 measurement[f])])
                          EXCEPT !.logs = {<<"INFO", "oper_up">>}]
             early == IF reserved THEN <<plain>> ELSE <<>>
         IN IF IpGoesToAssoc(msrd_data, dsn)
            THEN (IF IpAllDisregarded(d, dsn)
                  THEN (IF reserved THEN <<passed, passed>> ELSE <<passed>>)
                  ELSE early)
            ELSE early \o <<plain>>

\* a device that has the address of every interface of ids
IpHealthy(ids, d) ==
    /\ d.show_mgmt # NoRec /\ d.show_mgmt.ipAddress # "0.0.0.0"
    /\ d.show_mgmt.linkState = 1
    /\ d.ports_as = "str"
    /\ "vlan10" \in ids => (d.ipcfg10 # NoRec /\ d.ipcfg10.ipAddress = "10.0.0.1"
                               /\ d.ipcfg10.prefixLen # 0 /\ d.members = {1})

StartIpaddrs(n, healthy) ==
    /\ hpc = "idle"
    /\ \E cs \in IPInterfaceCollections(n), ex \in BOOLEAN, dsn \in IpDesigns,
          fl \in {None, "show ipconfig", "show vlan vlan10"} :
          \E d \in IpDevices(CheckIds(cs)) :
             /\ healthy => (IpHealthy(CheckIds(cs), d) /\ ~ex /\ dsn.port_enabled
                               /\ fl = None)
             /\ d.members = {} => (dsn.port_enabled /\ ~dsn.port_reserved)
             /\ "vlan10" \notin CheckIds(cs) => dsn.svi_enabled
             /\ StartRun("exos_test_ipaddrs",
                         [checks |-> cs, exclusive |-> ex, device |-> d,
                          design |-> dsn, failing |-> fl])

\* lines 75-90: cli_mgmt_rsp[0] raises IndexError on an empty response
IpaddrsCollect ==
    /\ hname = "exos_test_ipaddrs"
    /\ hpc = "collect"
    /\ sent' = SendSeq(sent, <<"show ipconfig", "show Mgmt">>, failing)
    /\ IF Fails(<<"show ipconfig", "show Mgmt">>, failing)
          \/ device.show_mgmt = NoRec
       THEN Raised /\ UNCHANGED msrds
       ELSE /\ msrds' = IpCollect(device)
            /\ hpc' = "loop"
            /\ UNCHANGED results
    /\ UNCHANGED <<runFrame, checks, idx>>
    /\ UNCHANGED <<cacheVars, dispatchVars, setupVars>>

\* lines 92-128: one turn of the loop
IpaddrsCheck ==
    /\ hname = "exos_test_ipaddrs"
    /\ hpc = "loop"
    /\ idx <= Len(checks)
    /\ LET check == checks[idx]
           if_name == check.id
           if_ip_data == Get(msrds, if_name, NoRec)
       IN IF Casefold(if_name) = "mgmt"
          THEN /\ results' = Append(results,
                      IpCheckMgmtInterface(idx, check, device.show_mgmt))
               /\ idx' = idx + 1
               /\ UNCHANGED <<hpc, sent>>
          ELSE IF if_ip_data = NoRec
          THEN /\ results' = Append(results,
                      MeasureDefault(idx, if_name, "PASS", check.expected, NoRec))
               /\ idx' = idx + 1
               /\ UNCHANGED <<hpc, sent>>
          ELSE /\ sent' = IF IpGoesToAssoc(if_ip_data, design)
                          THEN Send(sent, "show vlan " \o if_name)
                          ELSE sent
               /\ IF IpGoesToAssoc(if_ip_data, design)
                     /\ (failing = "show vlan " \o if_name \/ IpAssocRaises(device))
                  THEN Raised /\ UNCHANGED idx
                  ELSE /\ results' = results \o
                             IpCheckOneInterface(idx, check, if_ip_data,
                                                 device, design)
                       /\ idx' = idx + 1
                       /\ hpc' = hpc
    /\ UNCHANGED <<runFrame, checks, msrds>>
    /\ UNCHANGED <<cacheVars, dispatchVars, setupVars>>

\* lines 134-146 and _check_exclusive_list, lines 247-269
IpaddrsReturn ==
    /\ hname = "exos_test_ipaddrs"
    /\ hpc = "loop"
    /\ idx > Len(checks)
    /\ LET msrd_if_name == DOMAIN msrds \cup
                           (IF device.show_mgmt.ipAddress # "0.0.0.0"
                            THEN {"Mgmt"} ELSE {})
       IN results' = IF exclusive
                     THEN Append(results,
                                 MeasureExclusive(CheckIds(checks), msrd_if_name,
                                                  "FAIL"))
                     ELSE results
    /\ hpc' = "returned"
    /\ UNCHANGED <<runFrame, checks, idx, msrds, sent>>
    /\ UNCHANGED <<cacheVars, dispatchVars, setupVars>>

(***************************************************************************)
(* topology/exos_check_lags.py                                             *)
(***************************************************************************)

\* the LAGs of the design that the checks are about
LagIds == {"lag1", "lag2"}

\* one member of a LAG as the design expects it
LagMember(e, n) == [enabled |-> e, interface |-> n]

\* the checks of a LagCheckCollection: the LAG's members in natural order
LagChecks ==
    [id : LagIds,
     expected : [enabled : {TRUE},
                 interfaces : {<<LagMember(TRUE, "1")>>,
                               <<LagMember(TRUE, "1"),
                                 LagMember(TRUE, "2")>>}]]

LagCollections(n) ==
    {cs \in SeqsUpTo(LagChecks, n) :
        \A i, j \in DOMAIN cs : i # j => cs[i].id # cs[j].id}

\* a lagMemberPortCfg record of "show lacp lag N"
LagPortCfgs == [port_number : {"1", "2"}, actor_state : {"ACD", "A"}]

\* the lagMemberPortCfg records of an answer to "show lacp lag 1", in the
\* order of the response
LagPortCfgLists ==
    {<<>>}
        \cup {<<m>> : m \in {c \in LagPortCfgs : c.port_number = "1"}}
        \cup {<<c[1], c[2]>> : c \in LagPortCfgs \X LagPortCfgs}

\* the answer to "show lacp lag N": None for an empty response
LagDetails == {NoRec} \cup [cfgs : LagPortCfgLists]

\* what the device answers: the group ids of "show lacp" and the answer to
\* "show lacp lag N" of each
LagDevices ==
    {d \in [groups : SUBSET {"1", "2"},
            detail1 : LagDetails,
            detail2 : {[cfgs |-> <<[port_number |-> "3",
                                    actor_state |-> "ACD"]>>]}] :
        /\ "1" \notin d.groups => d.detail1 = [cfgs |-> <<>>]
        /\ d.detail1 # NoRec =>
              \A i, j \in DOMAIN d.detail1.cfgs :
                  i # j => d.detail1.cfgs[i].port_number
                              # d.detail1.cfgs[j].port_number}

LagDetail(d, g) == IF g = "1" THEN d.detail1 ELSE d.detail2

\* lines 64-76: "show lacp", then asyncio.gather() of one "show lacp lag N"
\* per group
LagGathered(d) == {"show lacp lag " \o g : g \in d.groups}

\* asyncio.gather() starts the execution of every command of cmds before it
\* suspends; an execution that raises does not cancel the others
SendAll(s, cmds) ==
    [c \in DOMAIN s \cup cmds |->
        IF c \in cmds THEN (IF c \in DOMAIN s THEN s[c] + 1 ELSE 1) ELSE s[c]]

\* lines 78-94: lacp_by_group, keyed "lag" + group_id
LagCollect(d) ==
    [n \in {"lag" \o g : g \in d.groups} |->
        [interfaces |->
            LagDetail(d, CHOOSE g \in d.groups : "lag" \o g = n).cfgs]]

\* "CD" in actor_state: the member is collecting and distributing
HasCD(actor_state) == actor_state \in {"ACD", "CD"}

\* the number that a port's name spells
PortNo(name) == CHOOSE n \in 0..9 : Str(n) = name

\* sorted(po_if_names, key=DeviceInterface): the members in natural order
RECURSIVE LagSorted(_)
LagSorted(names) ==
    IF names = {} THEN <<>>
    ELSE LET n == CHOOSE x \in names : \A y \in names : PortNo(x) <= PortNo(y)
         IN <<n>> \o LagSorted(names \ {n})

\* _check_one_lag, lines 118-163. bundle_status has the keys True and False;
\* bundle_status.get(if_name, True) looks a port number up in it, a string
\* like the group_id that line 92 concatenates, and takes the default True
CheckOneLag(k, check, lag_status) ==
    LET po_interfaces == lag_status.interfaces
        po_if_names == {po_interfaces[i].port_number : i \in DOMAIN po_interfaces}
        bundle_false == {i \in DOMAIN po_interfaces :
                            ~HasCD(po_interfaces[i].actor_state)}
        lag_down == Cardinality(bundle_false) = Len(po_interfaces)
        sorted == LagSorted(po_if_names)
        measurement == [enabled |-> ~lag_down,
                        interfaces |-> [i \in DOMAIN sorted |->
                                           LagMember(TRUE, sorted[i])]]
    IN MeasureDefault(k, check.id, "PASS", check.expected, measurement)

\* a device that reports every LAG of ids
LagHealthy(ids, d) ==
    /\ d.detail1 # NoRec
    /\ \A n \in ids : n \in {"lag" \o g : g \in d.groups}

StartLags(n, healthy) ==
    /\ hpc = "idle"
    /\ \E cs \in LagCollections(n),
          fl \in {None, "show lacp", "show lacp lag 1"} :
          \E d \in LagDevices :
             /\ healthy => (LagHealthy(CheckIds(cs), d) /\ fl = None)
             /\ StartRun("exos_check_lags",
                         [checks |-> cs, exclusive |-> FALSE, device |-> d,
                          design |-> NoRec, failing |-> fl])

\* lines 64-94: lacp_member_info[0] raises IndexError on an empty response
LagsCollect ==
    /\ hname = "exos_check_lags"
    /\ hpc = "collect"
    /\ sent' = IF failing = "show lacp" THEN Send(sent, "show lacp")
               ELSE SendAll(Send(sent, "show lacp"), LagGathered(device))
    /\ IF \/ failing = "show lacp"
          \/ failing \in LagGathered(device)
          \/ \E g \in device.groups : LagDetail(device, g) = NoRec
       THEN Raised /\ UNCHANGED msrds
       ELSE /\ msrds' = LagCollect(device)
            /\ hpc' = "loop"
            /\ UNCHANGED results
    /\ UNCHANGED <<runFrame, checks, idx>>
    /\ UNCHANGED <<cacheVars, dispatchVars, setupVars>>

\* lines 100-113: one turn of the loop; a LAG the device does not report is
\* appended as constructed, measure() is not called on it
LagsCheck ==
    /\ hname = "exos_check_lags"
    /\ hpc = "loop"
    /\ idx <= Len(checks)
    /\ LET check == checks[idx]
           if_name == check.id
       IN results' = Append(results,
              IF if_name \notin DOMAIN msrds
              THEN [k |-> idx, id |-> if_name, status |-> "PASS",
                    measurement |-> NoRec, fstatus |-> EmptyFn,
                    consulted |-> {}, logs |-> {}]
              ELSE CheckOneLag(idx, check, msrds[if_name]))
    /\ idx' = idx + 1
    /\ UNCHANGED <<runFrame, checks, msrds, hpc, sent>>
    /\ UNCHANGED <<cacheVars, dispatchVars, setupVars>>

\* line 115
LagsReturn ==
    /\ hname = "exos_check_lags"
    /\ hpc = "loop"
    /\ idx > Len(checks)
    /\ hpc' = "returned"
    /\ UNCHANGED <<runFrame, checks, idx, msrds, results, sent>>
    /\ UNCHANGED <<cacheVars, dispatchVars, setupVars>>

(***************************************************************************)
(* topology/exos_check_device_info.py                                      *)
(***************************************************************************)

\* lines 61-75: the four requests of the asyncio.gather()
DevInfoGets ==
    {"/openconfig-platform:components/component=operating_system-1/state",
     "/openconfig-platform:components/component=operating_system-2/state",
     "/openconfig-platform:components/component=linecard-1/state",
     "/openconfig-system:system/config"}

\* the check of a DeviceInformationCheckCollection
DevInfoChecks ==
    [id : {"device-info"}, expected : [product_model : {"X460", "X440"}]]

\* what the device answers: the oper-status of its two images and the
\* description of its line card; the software version is that of the first
\* ACTIVE image
DevInfoDevices ==
    [os1 : {"ACTIVE", "STANDBY"}, os2 : {"ACTIVE", "STANDBY"},
     description : {"X460", "X440"}]

StartDeviceInfo(healthy) ==
    /\ hpc = "idle"
    /\ \E c \in DevInfoChecks, d \in DevInfoDevices,
          fl \in {None, "/openconfig-system:system/config"} :
          /\ healthy => (d.os1 = "ACTIVE" /\ fl = None)
          /\ StartRun("exos_check_device_info",
                      [checks |-> <<c>>, exclusive |-> FALSE, device |-> d,
                       design |-> NoRec, failing |-> fl])

\* lines 61-116: the whole executor. next() over the images raises when
\* none is ACTIVE; the two results are returned as constructed, measure()
\* is not called on them
DeviceInfoRun ==
    /\ hname = "exos_check_device_info"
    /\ hpc = "collect"
    /\ sent' = SendAll(sent, DevInfoGets)
    /\ IF failing \in DevInfoGets
          \/ (device.os1 # "ACTIVE" /\ device.os2 # "ACTIVE")
       THEN Raised /\ UNCHANGED idx
       ELSE /\ results' =
                 <<[k |-> 1, id |-> checks[1].id, status |-> "PASS",
                    measurement |-> [product_model |-> device.description],
                    fstatus |-> EmptyFn, consulted |-> {}, logs |-> {}],
                   [k |-> 1, id |-> checks[1].id, status |-> "INFO",
                    measurement |->
                        [software_version |->
                            IF device.os1 = "ACTIVE" THEN "os1" ELSE "os2"],
                    fstatus |-> EmptyFn, consulted |-> {}, logs |-> {}]>>
            /\ idx' = 2
            /\ hpc' = "returned"
    /\ UNCHANGED <<runFrame, checks, msrds>>
    /\ UNCHANGED <<cacheVars, dispatchVars, setupVars>>

NextChecks ==
    \/ StartInterfaces(MaxChecks, FALSE)
    \/ StartTransceivers(MaxChecks, FALSE)
    \/ TransceiversCollect
    \/ TransceiversCheck
    \/ TransceiversReturn
    \/ StartCabling(MaxChecks, FALSE)
    \/ CablingCollectLldp
    \/ CablingCheck
    \/ CablingReturn
    \/ StartSwitchports(MaxChecks, FALSE)
    \/ SwitchportsCollect
    \/ SwitchportsCheck
    \/ SwitchportsReturn
    \/ StartVlans(MaxChecks, FALSE)
    \/ VlansCollect
    \/ VlansCheck
    \/ VlansReturn
    \/ StartIpaddrs(MaxChecks, FALSE)
    \/ IpaddrsCollect
    \/ IpaddrsCheck
    \/ IpaddrsReturn
    \/ StartLags(MaxChecks, FALSE)
    \/ LagsCollect
    \/ LagsCheck
    \/ LagsReturn
    \/ StartDeviceInfo(FALSE)
    \/ DeviceInfoRun
    \/ InterfacesCollect
    \/ InterfacesCheck
    \/ InterfacesReturn

\* the executor has left; the plugin's caller goes on to the next collection
\* on the same DUT
NextRun ==
    /\ hpc \in {"returned", "raised"}
    /\ ran' = ran \cup {hname}
    /\ hname' = None
    /\ hpc' = "idle"
    /\ device' = NoRec
    /\ design' = NoRec
    /\ exclusive' = FALSE
    /\ checks' = <<>>
    /\ idx' = 1
    /\ msrds' = EmptyFn
    /\ results' = <<>>
    /\ failing' = None
    /\ UNCHANGED sent
    /\ UNCHANGED <<cacheVars, dispatchVars, setupVars>>

\* a verification run: up to MaxRuns collections, each of another category,
\* one after the other on a device that answers every query
NextSession ==
    \/ StartInterfaces(MaxSessionChecks, TRUE)
    \/ StartTransceivers(MaxSessionChecks, TRUE)
    \/ TransceiversCollect
    \/ TransceiversCheck
    \/ TransceiversReturn
    \/ StartCabling(MaxSessionChecks, TRUE)
    \/ CablingCollectLldp
    \/ CablingCheck
    \/ CablingReturn
    \/ StartSwitchports(MaxSessionChecks, TRUE)
    \/ SwitchportsCollect
    \/ SwitchportsCheck
    \/ SwitchportsReturn
    \/ StartVlans(MaxSessionChecks, TRUE)
    \/ VlansCollect
    \/ VlansCheck
    \/ VlansReturn
    \/ StartIpaddrs(MaxSessionChecks, TRUE)
    \/ IpaddrsCollect
    \/ IpaddrsCheck
    \/ IpaddrsReturn
    \/ StartLags(MaxSessionChecks, TRUE)
    \/ LagsCollect
    \/ LagsCheck
    \/ LagsReturn
    \/ StartDeviceInfo(TRUE)
    \/ DeviceInfoRun
    \/ InterfacesCollect
    \/ InterfacesCheck
    \/ InterfacesReturn
    \/ NextRun

(***************************************************************************)
(* EXOSDeviceUnderTest.setup and teardown                                  *)
(***************************************************************************)

\* the DUTs of a run, which are set up independently of each other
Duts == 1..NDuts

InitSetup ==
    /\ spc = [d \in Duts |-> "new"]
    /\ system_info = [d \in Duts |-> None]
    /\ aclosed = [d \in Duts |-> 0]
    /\ exc = [d \in Duts |-> None]

\* line 142: setup() is called and super().setup() has returned
SetupStart(d) ==
    /\ spc[d] = "new"
    /\ spc' = [spc EXCEPT ![d] = "port_check"]
    /\ UNCHANGED <<system_info, aclosed, exc>>
    /\ UNCHANGED <<cacheVars, dispatchVars, checkVars>>

\* lines 144-148: port_check_url() says whether the API port answers; when
\* it does not, SetupError is raised
PortCheck(d, ok) ==
    /\ spc[d] = "port_check"
    /\ IF ok
       THEN /\ spc' = [spc EXCEPT ![d] = "show_switch"]
            /\ UNCHANGED exc
       ELSE /\ spc' = [spc EXCEPT ![d] = "raised"]
            /\ exc' = [exc EXCEPT ![d] = "SetupError"]
    /\ UNCHANGED <<system_info, aclosed>>
    /\ UNCHANGED <<cacheVars, dispatchVars, checkVars>>

\* lines 150-158: "show switch" returns, or raises httpx.HTTPError, which
\* the except clause takes
ShowSwitch(d, ok) ==
    /\ spc[d] = "show_switch"
    /\ IF ok
       THEN /\ system_info' = [system_info EXCEPT ![d] = "rsp[0]"]
            /\ spc' = [spc EXCEPT ![d] = "ready"]
       ELSE /\ spc' = [spc EXCEPT ![d] = "teardown"]
            /\ UNCHANGED system_info
    /\ UNCHANGED <<aclosed, exc>>
    /\ UNCHANGED <<cacheVars, dispatchVars, checkVars>>

\* lines 159-160: `await self.teardown()` in the except clause, then the
\* RuntimeError is raised
SetupTeardown(d) ==
    /\ spc[d] = "teardown"
    /\ aclosed' = [aclosed EXCEPT ![d] = @ + 1]
    /\ spc' = [spc EXCEPT ![d] = "raised"]
    /\ exc' = [exc EXCEPT ![d] = "RuntimeError"]
    /\ UNCHANGED system_info
    /\ UNCHANGED <<cacheVars, dispatchVars, checkVars>>

\* lines 162-164: teardown() of a DUT that was set up, at the end of the run
Teardown(d) ==
    /\ spc[d] = "ready"
    /\ aclosed' = [aclosed EXCEPT ![d] = @ + 1]
    /\ spc' = [spc EXCEPT ![d] = "closed"]
    /\ UNCHANGED <<system_info, exc>>
    /\ UNCHANGED <<cacheVars, dispatchVars, checkVars>>

NextSetup ==
    \/ \E d \in Duts : SetupStart(d)
    \/ \E d \in Duts, ok \in BOOLEAN : PortCheck(d, ok)
    \/ \E d \in Duts, ok \in BOOLEAN : ShowSwitch(d, ok)
    \/ \E d \in Duts : SetupTeardown(d)
    \/ \E d \in Duts : Teardown(d)

Init == InitCache /\ InitDispatch /\ InitChecks /\ InitSetup

SpecCache == Init /\ [][NextCache]_vars

\* the event loop runs a caller that release() has woken, and every device
\* command that was started returns or raises
SpecCacheLive ==
    /\ Init
    /\ [][NextCache]_vars
    /\ \A p \in Callers :
          /\ WF_vars(Wake(p))
          /\ WF_vars((\E v \in Responses : CliReturn(p, v)) \/ CliRaise(p))

SpecDispatch == Init /\ [][NextDispatch]_vars

SpecSetup == Init /\ [][NextSetup]_vars

SpecChecks == Init /\ [][NextChecks]_vars

SpecSession == Init /\ [][NextSession]_vars

(***************************************************************************)
(* Claims about the session cache                                          *)
(***************************************************************************)

\* C1: for one key, whatever values the device returns (an empty response
\* included), the device command is executed at most once and every caller
\* receives the result of that single execution.  Runs in which an execution
\* for the key raised are left out: the claim is about returned values.
C1_ExecutedAtMostOnce ==
    \A k \in Keys :
        raises[k] = 0 =>
            /\ execs[k] <= 1
            /\ \A p \in Callers :
                   (pc[p] = "done" /\ ckey[p] = k) => has_data[p] = first[k]

\* C2: when the device command raises inside api_cache_get the failure
\* reaches the caller, the cache holds no entry for the key after that step,
\* and the next call for the key is a miss that runs the command again.
C2_NoEntryAfterRaise ==
    [][\A p \in Callers :
          (pc[p] = "fetch" /\ pc'[p] # "fetch") =>
              \/ pc'[p] = "done"
              \/ /\ pc'[p] = "raised"
                 /\ api_cache'[ckey[p]] = None
                 /\ CacheMiss(ckey[p])']_vars

\* C3 as stated: a call for a populated key never waits on the lock, so no
\* such call is ever queued while the fetch of another key is in flight.
C3_PopulatedReadNeverWaits ==
    \A p, q \in Callers :
        ~ /\ pc[p] = "waiting"
          /\ Truthy(api_cache[ckey[p]])
          /\ pc[q] = "fetch"
          /\ ckey[q] # ckey[p]

\* C3 as amended: the lock covers the whole call, the read of a populated
\* key included.  A call returns a cached value only in a step taken while
\* the lock is free and no device command is in flight (a call that finds the
\* lock held queues for it), and it then returns the stored non-empty value
\* without executing the command.
C3_PopulatedReadUnderLock ==
    [][\A p \in Callers :
          (pc[p] \in {"idle", "waiting"} /\ pc'[p] = "done") =>
              /\ ~api_cache_locked
              /\ \A q \in Callers : pc[q] # "fetch"
              /\ has_data'[p] = api_cache[ckey'[p]]
              /\ Truthy(has_data'[p])
              /\ execs' = execs
              /\ api_cache' = api_cache]_vars

\* a caller that queued for the lock has returned the cached value of a
\* populated key without running the command
C3_Witness ==
    \E p \in Callers :
        /\ pc[p] = "done"
        /\ waited[p]
        /\ ~fetched[p]
        /\ has_data[p] = api_cache[ckey[p]]


(***************************************************************************)
(* Claims about the check dispatch                                         *)
(***************************************************************************)

\* the executor of the last register() call for collection type c in the
\* log, None when there is none
RECURSIVE LastRegistered(_, _)
LastRegistered(log, c) ==
    IF log = <<>> THEN None
    ELSE IF log[Len(log)][1] = c THEN log[Len(log)][2]
    ELSE LastRegistered(SubSeq(log, 1, Len(log) - 1), c)

\* the executor of the first register() call for collection type c
RECURSIVE FirstRegistered(_, _)
FirstRegistered(log, c) ==
    IF log = <<>> THEN None
    ELSE IF log[1][1] = c THEN log[1][2]
    ELSE FirstRegistered(Tail(log), c)

\* C5: execute_checks with a collection whose type has no registered
\* executor returns an empty outcome list and does not raise.
C5_UnregisteredReturnsEmpty ==
    \A i \in 1..Len(dispatches) :
        ~dispatches[i].registered =>
            dispatches[i].outcome = "returned_empty_list"

Collected(h, d) ==
    CASE h = "exos_check_interfaces" -> IfCollect(d)
      [] h = "exos_check_transceivers" -> XcvrCollect(d)
      [] h = "exos_check_cabling" -> CablingCollect(d)
      [] h = "exos_check_switchports" -> SwCollect(d)
      [] h = "eos_check_vlans" -> VlanCollect(d)
      [] h = "exos_test_ipaddrs" -> IpCollect(d)
      [] h = "exos_check_lags" -> LagCollect(d)
      [] h = "exos_check_device_info" -> EmptyFn

\* the key under which the executor looks for the record of a check
LookupKey(h, id) == IF h = "eos_check_vlans" THEN IntKey(ToInt(id)) ELSE id

\* the loop of the running executor has finished the k-th check
Processed(k) == hpc \in {"loop", "returned"} /\ k \in DOMAIN checks /\ k < idx

\* the collected mapping has no record for the k-th check
HasNoRecord(k) ==
    LookupKey(hname, checks[k].id) \notin DOMAIN Collected(hname, device)

\* the places in the results of the outcomes of the k-th check
OutcomesOf(k) == {i \in DOMAIN results : results[i].k = k}

\* the k-th check has one outcome, which is MISSING: no measurement, no
\* field compared and no on_mismatch consulted
IsMissing(k) ==
    /\ Cardinality(OutcomesOf(k)) = 1
    /\ \A i \in OutcomesOf(k) :
          /\ results[i].status = "MISSING"
          /\ results[i].measurement = NoRec
          /\ DOMAIN results[i].fstatus = {}
          /\ results[i].consulted = {}

\* C4: in a verification run on one DUT, no device command is sent more
\* than once, whatever executors run and in whatever order.
C4_EachCommandSentOnce == \A cmd \in DOMAIN sent : sent[cmd] <= 1

MappingExecutors ==
    {"exos_check_interfaces", "exos_check_cabling", "exos_check_switchports",
     "eos_check_vlans", "exos_test_ipaddrs"}

\* C7: in the interfaces, cabling, switchport, VLAN and IP executors, every
\* check whose identifier has no record in the collected mapping gets a
\* MISSING outcome with no measurement, and no on_mismatch is consulted.
C7_NoRecordIsMissing ==
    hname \in MappingExecutors =>
        \A k \in DOMAIN checks :
            (Processed(k) /\ HasNoRecord(k)) => IsMissing(k)

\* the executor looks the k-th check up in its mapping: the interfaces
\* executor measures Mgmt and lag interfaces by a query of their own, the
\* IP executor measures Mgmt by "show Mgmt", and the switchport executor
\* passes lag interfaces over
LookedUp(k) ==
    LET id == checks[k].id
    IN CASE hname = "exos_check_interfaces" -> id # "Mgmt" /\ ~StartsWithLag(id)
         [] hname = "exos_check_switchports" -> ~StartsWithLag(id)
         [] hname = "exos_test_ipaddrs" -> Casefold(id) # "mgmt"
         [] OTHER -> TRUE

\* C7 (amended): in these five executors, every check that the executor
\* looks up in its collected mapping and that has no record there gets a
\* MISSING outcome with no measurement, and no on_mismatch is consulted.
C7_LookedUpNoRecordIsMissing ==
    hname \in MappingExecutors =>
        \A k \in DOMAIN checks :
            (Processed(k) /\ LookedUp(k) /\ HasNoRecord(k)) => IsMissing(k)

\* an executor has returned with a MISSING outcome for a check it looked up
\* and found no record for, next to a check that was measured
C7_Witness ==
    /\ hname \in MappingExecutors
    /\ hpc = "returned"
    /\ \E k \in DOMAIN checks : LookedUp(k) /\ HasNoRecord(k) /\ IsMissing(k)
    /\ \E i \in DOMAIN results : results[i].k >= 1 /\ results[i].status = "PASS"

\* C8: in the transceiver executor a port with no record in the inventory
\* gets a MISSING outcome, and the executor does not leave by an exception.
C8_AbsentPortIsMissing ==
    hname = "exos_check_transceivers" =>
        /\ hpc # "raised"
        /\ \A k \in DOMAIN checks :
              (Processed(k) /\ HasNoRecord(k)) => IsMissing(k)

\* C9: in the interfaces executor a check flagged is_reserved gets exactly
\* one outcome, of status INFO and with no field graded, also when the
\* device has no record of the interface and when it is Mgmt or a lag.
C9_ReservedIsOneInfo ==
    hname = "exos_check_interfaces" =>
        \A k \in DOMAIN checks :
            (Processed(k) /\ checks[k].is_reserved) =>
                /\ Cardinality(OutcomesOf(k)) = 1
                /\ \A i \in OutcomesOf(k) :
                      /\ results[i].status = "INFO"
                      /\ DOMAIN results[i].fstatus = {}

\* the outcome at place i of the interfaces executor compared the
\* description and found it unequal to the expected one
DescMismatch(i) ==
    /\ results[i].k >= 1
    /\ "desc" \in DOMAIN results[i].fstatus
    /\ results[i].measurement.desc # checks[results[i].k].expected.desc

SpeedMismatch(i) ==
    /\ results[i].k >= 1
    /\ "speed" \in DOMAIN results[i].fstatus
    /\ results[i].measurement.speed # checks[results[i].k].expected.speed

C12_NameMismatchIsWarn ==
    hname = "eos_check_vlans" =>
        \A i \in DOMAIN results :
            LET r == results[i]
                e == checks[r.k].expected
            IN (r.measurement # NoRec /\ e.name # "" /\ e.name # r.measurement.name) =>
                  /\ r.fstatus.name = "WARN"
                  /\ (\A f \in DOMAIN r.fstatus \ {"name"} : r.fstatus[f] = "PASS")
                        => r.status = "WARN"

\* the k-th check of the IP executor is about an SVI that the design has
\* enabled, that the device reports with an address and as not up, and all
\* ports that the device reports in the VLAN are disabled or reserved in the
\* design; the expected address is not the reserved marker
SviDownMembersOut(k) ==
    /\ hname = "exos_test_ipaddrs"
    /\ k \in DOMAIN checks
    /\ Casefold(checks[k].id) # "mgmt"
    /\ checks[k].expected.if_ipaddr # "is_reserved"
    /\ checks[k].id \in DOMAIN IpCollect(device)
    /\ IpGoesToAssoc(IpCollect(device)[checks[k].id], design)
    /\ IpAllDisregarded(device, design)

\* the executor is through with the k-th check, which it found in its
\* mapping: it went on to the next one, or it left by an exception raised in
\* this one
Handled(k) ==
    \/ Processed(k)
    \/ hpc = "raised" /\ idx = k /\ LookupKey(hname, checks[k].id) \in DOMAIN msrds

\* C13: in the IP executor, for an SVI that the design has enabled and the
\* device reports as not up, with all member ports of the VLAN disabled or
\* reserved in the design, the outcome grades oper_up PASS and carries an INFO
\* annotation, and every other field that differs is graded FAIL.
C13_SviDownDowngraded ==
    \A k \in DOMAIN checks :
        (SviDownMembersOut(k) /\ Handled(k)) =>
            /\ Cardinality(OutcomesOf(k)) = 1
            /\ \A i \in OutcomesOf(k) :
                  /\ results[i].fstatus.oper_up = "PASS"
                  /\ <<"INFO", "oper_up">> \in results[i].logs
                  /\ \A f \in DOMAIN results[i].fstatus \ {"oper_up"} :
                        results[i].fstatus[f] =
                            IF results[i].measurement[f] = checks[k].expected[f]
                            THEN "PASS" ELSE "FAIL"

\* the interfaces that the interfaces executor has a measurement of when it
\* returns: those of the collected mapping, and Mgmt and the lags that it
\* measured by a query of their own
IfMeasuredIds ==
    DOMAIN IfCollect(device) \cup
    {checks[k].id : k \in {j \in DOMAIN checks :
                              checks[j].id = "Mgmt" \/ StartsWithLag(checks[j].id)}}

\* the places in the results of the exclusive-list outcomes
ExclusiveOutcomes == {i \in DOMAIN results : results[i].k = 0}

\* the FAIL entries about missing and about extra interfaces in the logs of
\* the outcome at place i
ReportedSets(i, kind) ==
    {l[4] : l \in {e \in results[i].logs : Len(e) = 4 /\ e[1] = "FAIL"
                                              /\ e[2] = "interfaces"
                                              /\ e[3] = kind}}

C15_LagExpansion ==
    (hname = "eos_check_vlans" /\ exclusive) =>
        \A i \in DOMAIN results :
            ( /\ results[i].measurement # NoRec
              /\ SeqToSet(checks[results[i].k].expected.interfaces) = {"lag1"}
              /\ design.lags = {"lag1"}
              /\ SeqToSet(design.members) = {"1", "2"}
              /\ SeqToSet(results[i].measurement.interfaces) = {"1", "2"} ) =>
                /\ ReportedSets(i, "missing") = {}
                /\ ReportedSets(i, "extra") = {}

\* the ports for which the device reports a transceiver with a serial number
XcvrWithSerial ==
    {Str(r.port) : r \in {x \in {device.port1, device.port2, device.port9} \ {NoRec} :
                              x.slNumber # ""}}

\* C16: in the exclusive check of the transceivers the reserved ports are
\* taken out of the expected and of the measured set, so that none is
\* reported missing or extra; a transceiver that is measured and not
\* expected is graded INFO, one that is expected and not measured FAIL.
C16_XcvrExclusive ==
    (hname = "exos_check_transceivers" /\ hpc = "returned" /\ exclusive) =>
        /\ Cardinality(ExclusiveOutcomes) = 1
        /\ \A i \in ExclusiveOutcomes :
              LET rsvd == XcvrReserved(checks)
                  expd == CheckIds(checks) \ rsvd
                  msrd == XcvrWithSerial \ rsvd
              IN /\ results[i].fstatus.missing = expd \ msrd
                 /\ results[i].fstatus.extra = msrd \ expd
                 /\ (results[i].fstatus.missing \cup results[i].fstatus.extra)
                        \cap rsvd = {}
                 /\ results[i].status =
                       IF expd \ msrd # {} THEN "FAIL"
                       ELSE IF msrd \ expd # {} THEN "INFO" ELSE "PASS"

\* the executor has returned an exclusive list graded INFO for a transceiver
\* that no check expects, while a reserved port holds a transceiver too
C16_Witness ==
    /\ hname = "exos_check_transceivers" /\ hpc = "returned" /\ exclusive
    /\ XcvrReserved(checks) \cap XcvrWithSerial # {}
    /\ \E i \in ExclusiveOutcomes :
          /\ results[i].fstatus.extra # {}
          /\ results[i].status = "INFO"

\* C17: when the VLAN collection is exclusive, a VLAN that the device has
\* and whose id is not among the expected ones is reported, in the outcomes
\* that the executor returns, as an extra VLAN.
C17_ExtraVlanReported ==
    (hname = "eos_check_vlans" /\ hpc = "returned" /\ exclusive) =>
        \A key \in DOMAIN VlanCollect(device) :
            key \notin {LookupKey(hname, id) : id \in CheckIds(checks)} =>
                \E i \in ExclusiveOutcomes :
                    VlanCollect(device)[key].vlan_id \in results[i].fstatus.extra

\* C18: no executor changes an expected value of a check: from the call of
\* an executor to its return the checks of the collection stay as they were.
C18_ExpectationsImmutable ==
    [][(hpc # "idle" /\ hpc' # "idle") => checks' = checks]_vars

\* s is an initial part of t
IsPrefix(s, t) == Len(s) <= Len(t) /\ SubSeq(t, 1, Len(s)) = s

\* Every executor makes one result object for a check, so two outcomes of
\* the same check in the list are the same object appended twice
AppendedOnce(rs) ==
    \A i, j \in DOMAIN rs : (i # j /\ rs[i].k >= 1) => rs[i].k # rs[j].k

\* C19: the result list of an executor only grows by appending: a step of
\* the executor leaves the outcomes that are in the list as they are, and
\* does not append an outcome object that is in the list already.
C19_AppendOnly ==
    [][(hpc \in {"collect", "loop"} /\ hpc' \in {"loop", "returned"}) =>
          /\ IsPrefix(results, results')
          /\ AppendedOnce(results')]_vars

\* the commands that the executor h sends before its loop over the checks,
\* in the order of the code
CollectQueries(h, d) ==
    CASE h = "exos_check_interfaces" -> IfQueries(d)
      [] h = "exos_check_transceivers" -> <<"show port transceiver information">>
      [] h = "exos_check_cabling" -> <<"show lldp neighbors">>
      [] h = "exos_check_switchports" -> <<"show ports vlan port-number">>
      [] h = "eos_check_vlans" -> <<"show vlan", "show port sharing">>
      [] h = "exos_test_ipaddrs" -> <<"show ipconfig", "show Mgmt">>
      [] h = "exos_check_lags" -> <<"show lacp">>
      [] h = "exos_check_device_info" -> <<>>

C21_MissingLagIsMissing ==
    hname = "exos_check_lags" =>
        \A k \in DOMAIN checks :
            (Processed(k) /\ HasNoRecord(k)) => IsMissing(k)

\* the k-th check of the IP executor is for a VLAN interface of which
\* "show ipconfig" gives the address and the prefix length
IpReported(k) ==
    /\ Casefold(checks[k].id) # "mgmt"
    /\ checks[k].id \in DOMAIN IpCollect(device)
    /\ IpCollect(device)[checks[k].id].prefixLen # 0

\* C22: in the IP executor a check whose expected address is "is_reserved"
\* and whose interface the device reports gets exactly one outcome, of status
\* INFO, and its oper_up is not graded.
C22_ReservedIpIsOneInfo ==
    hname = "exos_test_ipaddrs" =>
        \A k \in DOMAIN checks :
            (/\ Processed(k)
             /\ checks[k].expected.if_ipaddr = "is_reserved"
             /\ IpReported(k)) =>
                /\ Cardinality(OutcomesOf(k)) = 1
                /\ \A i \in OutcomesOf(k) :
                      /\ results[i].status = "INFO"
                      /\ DOMAIN results[i].fstatus = {}

\* the ports of which the device gives the executor h a record that the
\* collector keeps
ReportedPorts(h, d) ==
    CASE h = "exos_check_interfaces" ->
             {r.port : r \in {x \in {d.port1, d.port9} \ {NoRec} :
                                 x.linkState # 2}}
      [] h = "exos_check_transceivers" ->
             {r.port : r \in {d.port1, d.port2, d.port9} \ {NoRec}}
      [] h = "exos_check_cabling" ->
             {r.port : r \in {x \in {d.port1, d.port2} \ {NoRec} :
                                 "port" \in DOMAIN x}}
      [] h = "exos_check_switchports" ->
             {n \in {1, 2} : (IF n = 1 THEN d.vlans1 ELSE d.vlans2) # NoRec}

\* C23: the measurement mapping of the interfaces, transceiver, cabling and
\* switchport executors has the key str(n) for every port n that the device
\* reports, as a number or as a string, and the IP executor finds every
\* member port of a VLAN in the design: with no command raising and an
\* answer to "show Mgmt" it does not leave by an exception.
C23_PortKeysCoerced ==
    /\ (/\ hname \in {"exos_check_interfaces", "exos_check_transceivers",
                      "exos_check_cabling", "exos_check_switchports"}
        /\ hpc \in {"loop", "returned"}) =>
           \A n \in ReportedPorts(hname, device) : Str(n) \in DOMAIN msrds
    /\ (/\ hname = "exos_test_ipaddrs"
        /\ failing = None
        /\ device.show_mgmt # NoRec) => hpc # "raised"

\* C24: once the switchport executor has collected, a port whose
\* ldShareMaster is another port and that has no VLAN records of its own has
\* the entry of that port, and a port with VLAN records of its own has those;
\* no check is evaluated before, and the check of a back-filled port is
\* measured.
C24_SwitchportBackfill ==
    hname = "exos_check_switchports" =>
        LET key(n) == RawKey(device.ports_as, n)
        IN /\ hpc = "collect" => results = <<>>
           /\ hpc \in {"loop", "returned"} =>
                 /\ (device.share2 = 1 /\ device.vlans2 = NoRec) =>
                       /\ {key(1), key(2)} \subseteq DOMAIN msrds
                       /\ msrds[key(2)] = msrds[key(1)]
                       /\ device.vlans1 # NoRec => msrds[key(2)] = device.vlans1
                       /\ \A k \in DOMAIN checks :
                             (Processed(k) /\ checks[k].id = key(2)) =>
                                 \A i \in OutcomesOf(k) :
                                     results[i].measurement # NoRec
                 /\ device.vlans1 # NoRec => msrds[key(1)] = device.vlans1
                 /\ device.vlans2 # NoRec => msrds[key(2)] = device.vlans2

\* the check of port 2, which has no VLAN records and whose ldShareMaster is
\* port 1, has passed on the VLANs of port 1
C24_Witness ==
    /\ hname = "exos_check_switchports"
    /\ hpc = "returned"
    /\ device.share2 = 1 /\ device.vlans2 = NoRec /\ device.vlans1 # NoRec
    /\ \E k \in DOMAIN checks :
          /\ checks[k].id = "2"
          /\ \E i \in OutcomesOf(k) :
                /\ results[i].status = "PASS"
                /\ results[i].measurement # NoRec

\* C25: the IP executor appends exactly one outcome for every check it has
\* gone through, and the outcomes are in the order of the checks.
C25_OneOutcomePerIpCheck ==
    hname = "exos_test_ipaddrs" =>
        /\ \A k \in DOMAIN checks :
              Processed(k) => Cardinality(OutcomesOf(k)) = 1
        /\ \A i, j \in DOMAIN results :
              i < j => results[i].k < results[j].k

\* the interfaces that the k-th VLAN check expects, less the virtual ones
VlanExpdBefore(k) == SeqToSet(checks[k].expected.interfaces) \ design.virtual

\* C26: for a VLAN check whose expected interfaces hold no lag interface and
\* no member of a lag, the expected interface set that the outcome was
\* graded against is the set the check expects: an exclusive check whose
\* measured interfaces are the expected ones reports nothing missing and
\* nothing extra.
C26_UnrelatedLagLeavesExpected ==
    hname = "eos_check_vlans" =>
        \A k \in DOMAIN checks :
            (/\ Processed(k)
             /\ ~HasNoRecord(k)
             /\ VlanExpdBefore(k) \cap (design.lags \cup SeqToSet(design.members))
                   = {}) =>
                /\ VlanExpdIfs(checks[k], design, LsPortMap(device))
                      = VlanExpdBefore(k)
                /\ \A i \in OutcomesOf(k) :
                      (exclusive /\ SeqToSet(VlanPorts(device)) = VlanExpdBefore(k))
                          => \A l \in results[i].logs : l[1] # "FAIL"

\* C27: in the outcome of a LAG that the device reports, a member is
\* measured enabled exactly when its actor_state has "CD", and the LAG is
\* measured enabled exactly when one of its members has.
C27_LagEnabledFlags ==
    hname = "exos_check_lags" =>
        \A k \in DOMAIN checks :
            (Processed(k) /\ ~HasNoRecord(k)) =>
                \A i \in OutcomesOf(k) :
                    LET cfgs == msrds[checks[k].id].interfaces
                        m == results[i].measurement
                    IN /\ m.enabled =
                             (\E j \in DOMAIN cfgs : HasCD(cfgs[j].actor_state))
                       /\ \A x \in DOMAIN m.interfaces, j \in DOMAIN cfgs :
                             cfgs[j].port_number = m.interfaces[x].interface =>
                                 m.interfaces[x].enabled
                                     = HasCD(cfgs[j].actor_state)

\* C28: when setup() of a DUT has raised, by SetupError or by RuntimeError,
\* the transport of the DUT has been closed exactly once.
C28_SetupFailureCloses ==
    \A d \in Duts : spc[d] = "raised" => aclosed[d] = 1

\* C29: every api_cache_get call that is queued for the lock or has its
\* command in flight returns or raises in the end, and whenever no call is
\* queued or in flight the lock is free and nobody waits for it.
C29_LockNeverLeftHeld ==
    /\ []((\A p \in Callers : pc[p] \notin {"waiting", "fetch"}) =>
             (~api_cache_locked /\ lock_waiters = <<>>))
    /\ \A p \in Callers :
          (pc[p] \in {"waiting", "fetch"}) ~> (pc[p] \in {"done", "raised"})

\* of two calls for one key the first has raised while the second was queued
\* behind it; the second has run the command itself and returned
C29_Witness ==
    /\ ncalls = 2
    /\ \E p \in Callers :
          /\ pc[p] = "done" /\ waited[p] /\ fetched[p]
          /\ raises[ckey[p]] = 1
    /\ ~api_cache_locked

\* C30: once a key holds a non-empty response the entry is never changed or
\* removed and the command is not run for the key again, and a call for the
\* key, whatever command it passes, returns the stored response.
C30_KeyedByKeyAlone ==
    [][/\ \A k \in Keys :
             Truthy(api_cache[k]) =>
                 /\ api_cache'[k] = api_cache[k]
                 /\ execs'[k] = execs[k]
       /\ \A p \in Callers :
             (/\ pc[p] # "done" /\ pc'[p] = "done"
              /\ Truthy(api_cache[ckey'[p]])) =>
                 has_data'[p] = api_cache[ckey'[p]]]_vars

\* of two calls for one key with different commands the first has run its
\* command and the second has returned the first one's response without
\* running its own
C30_Witness ==
    /\ ncalls = 2
    /\ \E p, q \in Callers :
          /\ pc[p] = "done" /\ pc[q] = "done"
          /\ ckey[p] = ckey[q] /\ ccmd[p] # ccmd[q]
          /\ fetched[p] /\ ~fetched[q]
          /\ has_data[q] = has_data[p]
          /\ api_cache[ckey[q]] = has_data[q]

====
